---- MODULE Spec2Model ----
(***************************************************************************)
(* Model of the session guard, the commitment contract, the trade ledger   *)
(* and the R-multiple arithmetic of src/src/App.tsx.                       *)
(*                                                                         *)
(* A JavaScript number is modelled as an exact fraction [n, d]: d > 0 is a *)
(* finite value n/d in lowest terms, d = 0 is a non-finite value (0/0 is   *)
(* NaN, 1/0 is Infinity, -1/0 is -Infinity).  Floating point rounding is   *)
(* not modelled.                                                           *)
(***************************************************************************)
EXTENDS Integers, Sequences, FiniteSets, TLC

(***************************************************************************)
(* Bounds of the model.                                                    *)
(***************************************************************************)
\* Calendar days the clock may reach (day keys 1..MaxDay).
MaxDay == 2
\* Largest value that the operator types into the "max trades" draft field.
MaxDraftTrades == 2
\* Largest price that is typed into the entry/stop/exit fields of the R check.
MaxPrice == 4
\* Largest magnitude of a finite number in the scoring arithmetic, standing
\* for Number.MAX_VALUE: a result beyond it is an infinity.
MaxNumber == 1000000

(***************************************************************************)
(* Numbers.                                                                *)
(***************************************************************************)
AbsInt(k) == IF k < 0 THEN -k ELSE k

RECURSIVE GCD(_, _)
GCD(a, b) == IF b = 0 THEN a ELSE GCD(b, a % b)

Sign(k) == IF k < 0 THEN -1 ELSE IF k > 0 THEN 1 ELSE 0

\* The fraction n/d in lowest terms with a positive denominator; with d = 0
\* the non-finite value of the sign of n.
Frac(n, d) ==
  IF d = 0 THEN [n |-> Sign(n), d |-> 0]
  ELSE LET s == IF d < 0 THEN -1 ELSE 1
           g == GCD(AbsInt(n), AbsInt(d))
       IN  [n |-> (s * n) \div g, d |-> (s * d) \div g]

Num(k) == [n |-> k, d |-> 1]
NaN == [n |-> 0, d |-> 0]
Infinity == [n |-> 1, d |-> 0]

isFinite(x) == x.d > 0
isNaN(x) == x.d = 0 /\ x.n = 0

\* Arithmetic and comparison of numbers as IEEE 754 defines them for
\* non-finite operands: NaN propagates, a comparison with NaN is false,
\* x / 0 is an infinity of the sign of x and 0 / 0 is NaN.  The sign of a
\* zero is not modelled: every zero is +0.
Negate(a) == [n |-> -a.n, d |-> a.d]
Plus(a, b) ==
  IF a.d > 0 /\ b.d > 0 THEN Frac(a.n * b.d + b.n * a.d, a.d * b.d)
  ELSE IF isNaN(a) \/ isNaN(b) THEN NaN
  ELSE IF a.d = 0 /\ b.d = 0 THEN (IF a.n = b.n THEN a ELSE NaN)
  ELSE IF a.d = 0 THEN a
  ELSE b
Minus(a, b) == Plus(a, Negate(b))
Recip(b) ==
  IF b.d = 0 THEN (IF b.n = 0 THEN NaN ELSE Num(0))
  ELSE IF b.n = 0 THEN Infinity
  ELSE [n |-> b.d * Sign(b.n), d |-> AbsInt(b.n)]
Over(a, b) ==
  LET r == Recip(b) IN Frac(a.n * r.n, a.d * r.d)
MathAbs(a) == [n |-> AbsInt(a.n), d |-> a.d]
Less(a, b) ==
  /\ ~isNaN(a)
  /\ ~isNaN(b)
  /\ IF a.d = 0 /\ b.d = 0 THEN a.n < b.n ELSE a.n * b.d < b.n * a.d
LessEq(a, b) ==
  /\ ~isNaN(a)
  /\ ~isNaN(b)
  /\ IF a.d = 0 /\ b.d = 0 THEN a.n <= b.n ELSE a.n * b.d <= b.n * a.d
MathMax(a, b) ==
  IF isNaN(a) \/ isNaN(b) THEN NaN ELSE IF Less(a, b) THEN b ELSE a
MathMin(a, b) ==
  IF isNaN(a) \/ isNaN(b) THEN NaN ELSE IF Less(b, a) THEN b ELSE a
MathFloor(a) == a.n \div a.d
clamp(x, a, b) == MathMax(a, MathMin(b, x))

\* Mutant: the reward of a LONG is taken with the sign of a SHORT.
computeR_LongRewardReversed(side, entry, stop, exit) ==
  IF ~(isFinite(entry) /\ isFinite(stop) /\ isFinite(exit)) THEN NaN
  ELSE IF side = "LONG"
       THEN LET risk == Minus(entry, stop)
            IN  IF LessEq(risk, Num(0)) THEN NaN
                ELSE Over(Minus(entry, exit), risk)
       ELSE LET risk == Minus(stop, entry)
            IN  IF LessEq(risk, Num(0)) THEN NaN
                ELSE Over(Minus(entry, exit), risk)

(***************************************************************************)
(* computeR: the R multiple of a trade, NaN when the inputs are invalid.   *)
(***************************************************************************)
computeR(side, entry, stop, exit) ==
  IF ~(isFinite(entry) /\ isFinite(stop) /\ isFinite(exit)) THEN NaN
  ELSE IF side = "LONG"
       THEN LET risk == Minus(entry, stop)
            IN  IF LessEq(risk, Num(0)) THEN NaN
                ELSE Over(Minus(exit, entry), risk)
       ELSE LET risk == Minus(stop, entry)
            IN  IF LessEq(risk, Num(0)) THEN NaN
                ELSE Over(Minus(entry, exit), risk)

(***************************************************************************)
(* Session clock: the window and its quality tier of a local minute of day.*)
(***************************************************************************)
B_ASIA == 7 * 60
B_EU == 16 * 60
B_OVERLAP == 21 * 60
B_0100 == 1 * 60
B_US_END == 6 * 60
B_OFF_END == 7 * 60

\* Mutant: the overlap window ends at midnight.
computeSession_OverlapEndsAtMidnight(curMinutes) ==
  IF curMinutes >= B_ASIA /\ curMinutes < B_EU
    THEN [session |-> "ASIA", status |-> "SELECTIVE",
          note |-> "Decent for some alts/scalps."]
  ELSE IF curMinutes >= B_EU /\ curMinutes < B_OVERLAP
    THEN [session |-> "EUROPE", status |-> "TRADE", note |-> "Good activity."]
  ELSE IF curMinutes >= B_OVERLAP
    THEN [session |-> "EUROPE + US OVERLAP", status |-> "TRADE",
          note |-> "Best liquidity/volatility."]
  ELSE IF curMinutes >= B_0100 /\ curMinutes < B_US_END
    THEN [session |-> "US", status |-> "TRADE", note |-> "Strong activity."]
  ELSE IF curMinutes >= B_US_END /\ curMinutes < B_OFF_END
    THEN [session |-> "OFF-PEAK", status |-> "WAIT",
          note |-> "Thin/awkward window."]
  ELSE [session |-> "OFF-PEAK", status |-> "WAIT", note |-> "Low quality window."]

\* The note keeps the first sentence of its text; it tells the OFF-PEAK
\* window from the residual branch.
\* Mutant: the off-peak windows have quality SELECTIVE.
computeSession_OffPeakSelective(curMinutes) ==
  IF curMinutes >= B_ASIA /\ curMinutes < B_EU
    THEN [session |-> "ASIA", status |-> "SELECTIVE",
          note |-> "Decent for some alts/scalps."]
  ELSE IF curMinutes >= B_EU /\ curMinutes < B_OVERLAP
    THEN [session |-> "EUROPE", status |-> "TRADE", note |-> "Good activity."]
  ELSE IF curMinutes >= B_OVERLAP \/ curMinutes < B_0100
    THEN [session |-> "EUROPE + US OVERLAP", status |-> "TRADE",
          note |-> "Best liquidity/volatility."]
  ELSE IF curMinutes >= B_0100 /\ curMinutes < B_US_END
    THEN [session |-> "US", status |-> "TRADE", note |-> "Strong activity."]
  ELSE IF curMinutes >= B_US_END /\ curMinutes < B_OFF_END
    THEN [session |-> "OFF-PEAK", status |-> "SELECTIVE",
          note |-> "Thin/awkward window."]
  ELSE [session |-> "OFF-PEAK", status |-> "SELECTIVE", note |-> "Low quality window."]

computeSession(curMinutes) ==
  IF curMinutes >= B_ASIA /\ curMinutes < B_EU
    THEN [session |-> "ASIA", status |-> "SELECTIVE",
          note |-> "Decent for some alts/scalps."]
  ELSE IF curMinutes >= B_EU /\ curMinutes < B_OVERLAP
    THEN [session |-> "EUROPE", status |-> "TRADE", note |-> "Good activity."]
  ELSE IF curMinutes >= B_OVERLAP \/ curMinutes < B_0100
    THEN [session |-> "EUROPE + US OVERLAP", status |-> "TRADE",
          note |-> "Best liquidity/volatility."]
  ELSE IF curMinutes >= B_0100 /\ curMinutes < B_US_END
    THEN [session |-> "US", status |-> "TRADE", note |-> "Strong activity."]
  ELSE IF curMinutes >= B_US_END /\ curMinutes < B_OFF_END
    THEN [session |-> "OFF-PEAK", status |-> "WAIT",
          note |-> "Thin/awkward window."]
  ELSE [session |-> "OFF-PEAK", status |-> "WAIT", note |-> "Low quality window."]

(***************************************************************************)
(* The next change of the session window and the countdown to it.  A Date  *)
(* is the number of milliseconds since the local midnight of the day of    *)
(* now; a day has 24 hours (no change of the clock falls into it).         *)
(***************************************************************************)
MsPerMinute == 60 * 1000
MinutesPerDay == 24 * 60

getMinutesOfDay(date) == (date \div MsPerMinute) % MinutesPerDay

\* new Date(now) with setDate(getDate() + addDays), setHours(targetHour, 0, 0, 0)
makeNext(date, targetHour, addDays) ==
  (((date \div MsPerMinute) \div MinutesPerDay) + addDays) * MinutesPerDay * MsPerMinute
    + targetHour * 60 * MsPerMinute

\* Mutant: the overlap window always ends at 01:00 of the day of now.
nextChangeAt_OverlapSameDay(date) ==
  LET curMinutes == getMinutesOfDay(date)
  IN  IF curMinutes >= B_ASIA /\ curMinutes < B_EU THEN makeNext(date, 16, 0)
      ELSE IF curMinutes >= B_EU /\ curMinutes < B_OVERLAP THEN makeNext(date, 21, 0)
      ELSE IF curMinutes >= B_OVERLAP \/ curMinutes < B_0100
        THEN makeNext(date, 1, 0)
      ELSE IF curMinutes >= B_0100 /\ curMinutes < B_US_END THEN makeNext(date, 6, 0)
      ELSE IF curMinutes >= B_US_END /\ curMinutes < B_OFF_END THEN makeNext(date, 7, 0)
      ELSE IF curMinutes < B_ASIA THEN makeNext(date, 7, 0)
      ELSE makeNext(date, 16, 0)

nextChangeAt(date) ==
  LET curMinutes == getMinutesOfDay(date)
  IN  IF curMinutes >= B_ASIA /\ curMinutes < B_EU THEN makeNext(date, 16, 0)
      ELSE IF curMinutes >= B_EU /\ curMinutes < B_OVERLAP THEN makeNext(date, 21, 0)
      ELSE IF curMinutes >= B_OVERLAP \/ curMinutes < B_0100
        THEN (IF curMinutes >= B_OVERLAP THEN makeNext(date, 1, 1)
              ELSE makeNext(date, 1, 0))
      ELSE IF curMinutes >= B_0100 /\ curMinutes < B_US_END THEN makeNext(date, 6, 0)
      ELSE IF curMinutes >= B_US_END /\ curMinutes < B_OFF_END THEN makeNext(date, 7, 0)
      ELSE IF curMinutes < B_ASIA THEN makeNext(date, 7, 0)
      ELSE makeNext(date, 16, 0)

\* The hours, minutes and seconds that msToCountdown prints as HH:MM:SS.
msToCountdown(ms) ==
  IF ms <= 0 THEN <<0, 0, 0>>
  ELSE LET totalSec == ms \div 1000
       IN  <<totalSec \div 3600, (totalSec % 3600) \div 60, totalSec % 60>>

(***************************************************************************)
(* State.                                                                  *)
(***************************************************************************)
VARIABLES
  now,            \* wall clock: [day, min], day is the local day key
  commit,         \* CommitConfig of the app, or Null
  dayState,       \* DayState of the app
  overrideGuard,  \* manual override toggle
  logOpen,        \* the log-trade form is open
  focusSymbol,    \* the symbol the operator acts on
  market,         \* the symbols of the market snapshot, <<>> before the first
  microMap,       \* symbol -> entry quality, for the symbols stored
  structMap,      \* symbol -> structure result, for the symbols stored
  error,          \* the error shown to the operator, or Null
  isLoading,      \* the loading flag that refresh sets and clears
  lsCommit,       \* localStorage["ob:commit"], or Null
  lsDayState,     \* localStorage["ob:daystate"], or Null
  probe,          \* a call of a pure function: its arguments and result
  lastOp          \* the last operation on the contract or the day state

guardVars == <<now, commit, dayState, overrideGuard, logOpen, lsCommit, lsDayState>>
assetVars == <<focusSymbol, market, microMap, structMap, error, isLoading>>
vars == <<now, commit, dayState, overrideGuard, logOpen, focusSymbol, market,
          microMap, structMap, error, isLoading, lsCommit, lsDayState, probe,
          lastOp>>

\* null / undefined / a missing localStorage item
Null == [null |-> TRUE]

\* The minutes of the day at which the model looks at the clock: the first
\* minute of every session window, in the order in which they are reached.
ClockMinutes == <<0, B_0100, B_US_END, B_ASIA, B_EU, B_OVERLAP>>

todayKey == now.day
sessionInfo == computeSession(now.min)

(***************************************************************************)
(* Local persistence.  JSON.stringify writes a non-finite number as null   *)
(* and leaves out a field whose value is undefined.                        *)
(***************************************************************************)
JSONNumber(x) == IF isFinite(x) THEN x ELSE Null

TradeToJSON(t) == [t EXCEPT !.entry = JSONNumber(@), !.stop = JSONNumber(@),
                            !.exit = JSONNumber(@), !.r = JSONNumber(@)]

RECURSIVE TradesToJSON(_)
TradesToJSON(trades) ==
  IF trades = <<>> THEN <<>>
  ELSE Append(TradesToJSON(SubSeq(trades, 1, Len(trades) - 1)),
              TradeToJSON(trades[Len(trades)]))

DayStateToJSON(st) == [st EXCEPT !.trades = TradesToJSON(@)]

CommitToJSON(cfg) ==
  [cfg EXCEPT !.maxDailyLossR = JSONNumber(@), !.riskPct = JSONNumber(@)]

\* Mutant: the stored contract is returned whatever its day key.
loadCommit_AnyDay(store, dayKey) == store

loadCommit(store, dayKey) ==
  IF store = Null THEN Null
  ELSE IF store.dayKey = dayKey THEN store ELSE Null

freshDayState(dayKey) == [dayKey |-> dayKey, locked |-> FALSE, trades |-> <<>>]

\* Mutant: the stored day state is ignored.
loadDayState_AlwaysFresh(store, dayKey) == freshDayState(dayKey)

loadDayState(store, dayKey) ==
  IF store = Null THEN freshDayState(dayKey)
  ELSE IF store.dayKey # dayKey THEN freshDayState(dayKey)
  ELSE store

saveDayState(st) == DayStateToJSON(st)
saveCommit(cfg) == CommitToJSON(cfg)

(***************************************************************************)
(* Derived values of the guard.                                            *)
(***************************************************************************)
commitRequiredOf(c, dayKey) == IF c = Null THEN TRUE ELSE c.dayKey # dayKey
commitRequired == commitRequiredOf(commit, todayKey)

lockedReasonOf(st) ==
  IF "lockedReason" \in DOMAIN st THEN st.lockedReason ELSE Null

tradesTodayOf(trades) == Len(trades)

RECURSIVE rTodayOf(_)
rTodayOf(trades) ==
  IF trades = <<>> THEN Num(0)
  ELSE LET t == trades[Len(trades)]
       IN  Plus(rTodayOf(SubSeq(trades, 1, Len(trades) - 1)),
                IF isFinite(t.r) THEN t.r ELSE Num(0))

\* Mutant: every losing trade of the day is counted.
RECURSIVE consecutiveLossesOf_AllLosses(_)
consecutiveLossesOf_AllLosses(trades) ==
  IF trades = <<>> THEN 0
  ELSE (IF Less(trades[Len(trades)].r, Num(0)) THEN 1 ELSE 0)
         + consecutiveLossesOf_AllLosses(SubSeq(trades, 1, Len(trades) - 1))

RECURSIVE consecutiveLossesOf(_)
consecutiveLossesOf(trades) ==
  IF trades = <<>> THEN 0
  ELSE IF Less(trades[Len(trades)].r, Num(0))
       THEN 1 + consecutiveLossesOf(SubSeq(trades, 1, Len(trades) - 1))
       ELSE 0

tradesToday == tradesTodayOf(dayState.trades)
rToday == rTodayOf(dayState.trades)
consecutiveLosses == consecutiveLossesOf(dayState.trades)

\* Mutant: the overlap window is checked against the Europe flag.
sessionAllowedByCommitOf_OverlapAsEurope(c, s) ==
  IF c = Null THEN FALSE
  ELSE IF s = "ASIA" THEN c.allowAsia
  ELSE IF s = "EUROPE" THEN c.allowEurope
  ELSE IF s = "US" THEN c.allowUS
  ELSE IF s = "EUROPE + US OVERLAP" THEN c.allowEurope
  ELSE c.allowOffPeak

sessionAllowedByCommitOf(c, s) ==
  IF c = Null THEN FALSE
  ELSE IF s = "ASIA" THEN c.allowAsia
  ELSE IF s = "EUROPE" THEN c.allowEurope
  ELSE IF s = "US" THEN c.allowUS
  ELSE IF s = "EUROPE + US OVERLAP" THEN c.allowOverlap
  ELSE c.allowOffPeak

sessionAllowedByCommit == sessionAllowedByCommitOf(commit, sessionInfo.session)

\* Mutant: the manual override also lifts the lock of the day.
tradingAllowedOf_OverrideLiftsLock(required, locked, status, override, allowedByCommit) ==
  IF required THEN FALSE
  ELSE IF locked /\ ~override THEN FALSE
  ELSE LET waitBlocks == status = "WAIT" /\ ~override
           commitBlocks == ~allowedByCommit /\ ~override
       IN  IF waitBlocks THEN FALSE
           ELSE IF commitBlocks THEN FALSE
           ELSE TRUE

tradingAllowedOf(required, locked, status, override, allowedByCommit) ==
  IF required THEN FALSE
  ELSE IF locked THEN FALSE
  ELSE LET waitBlocks == status = "WAIT" /\ ~override
           commitBlocks == ~allowedByCommit /\ ~override
       IN  IF waitBlocks THEN FALSE
           ELSE IF commitBlocks THEN FALSE
           ELSE TRUE

tradingAllowed ==
  tradingAllowedOf(commitRequired, dayState.locked, sessionInfo.status,
                   overrideGuard, sessionAllowedByCommit)

(***************************************************************************)
(* The auto-lock effect, run after every render.                           *)
(***************************************************************************)
\* Mutant: locking the day also empties the ledger.
lockWith_ClearsTrades(st, reason) ==
  [dayKey |-> st.dayKey, locked |-> TRUE, trades |-> <<>>, lockedReason |-> reason]

lockWith(st, reason) ==
  [dayKey |-> st.dayKey, locked |-> TRUE, lockedReason |-> reason,
   trades |-> st.trades]

\* Mutant: the trade cap locks only once it is exceeded.
autoLock_TradeCapExceeded(c, st, dayKey) ==
  IF commitRequiredOf(c, dayKey) THEN st
  ELSE IF st.locked THEN st
  ELSE IF tradesTodayOf(st.trades) > c.maxTrades
    THEN lockWith(st, "Max trades reached")
  ELSE IF LessEq(rTodayOf(st.trades), Negate(MathAbs(c.maxDailyLossR)))
    THEN lockWith(st, "Daily loss limit hit")
  ELSE IF consecutiveLossesOf(st.trades) >= c.maxConsecutiveLosses
    THEN lockWith(st, "Consecutive losses hit")
  ELSE st

\* Mutant: the daily loss limit is not checked.
autoLock_NoLossLimit(c, st, dayKey) ==
  IF commitRequiredOf(c, dayKey) THEN st
  ELSE IF st.locked THEN st
  ELSE IF tradesTodayOf(st.trades) >= c.maxTrades
    THEN lockWith(st, "Max trades reached")
  ELSE IF consecutiveLossesOf(st.trades) >= c.maxConsecutiveLosses
    THEN lockWith(st, "Consecutive losses hit")
  ELSE st

\* Mutant: the effect does not return early on a locked day.
autoLock_Relocks(c, st, dayKey) ==
  IF commitRequiredOf(c, dayKey) THEN st
  ELSE IF tradesTodayOf(st.trades) >= c.maxTrades
    THEN lockWith(st, "Max trades reached")
  ELSE IF LessEq(rTodayOf(st.trades), Negate(MathAbs(c.maxDailyLossR)))
    THEN lockWith(st, "Daily loss limit hit")
  ELSE IF consecutiveLossesOf(st.trades) >= c.maxConsecutiveLosses
    THEN lockWith(st, "Consecutive losses hit")
  ELSE st

autoLock(c, st, dayKey) ==
  IF commitRequiredOf(c, dayKey) THEN st
  ELSE IF st.locked THEN st
  ELSE IF tradesTodayOf(st.trades) >= c.maxTrades
    THEN lockWith(st, "Max trades reached")
  ELSE IF LessEq(rTodayOf(st.trades), Negate(MathAbs(c.maxDailyLossR)))
    THEN lockWith(st, "Daily loss limit hit")
  ELSE IF consecutiveLossesOf(st.trades) >= c.maxConsecutiveLosses
    THEN lockWith(st, "Consecutive losses hit")
  ELSE st

(***************************************************************************)
(* Inputs of the operator commands.                                        *)
(***************************************************************************)
\* Values typed into the cap fields of the commitment draft (any finite number
\* is accepted): <<max trades, max daily loss R, max consecutive losses>>.
DraftCaps ==
  {<<Num(MaxDraftTrades), Num(2), Num(2)>>,
   <<Num(MaxDraftTrades), Num(-1), Num(2)>>,
   <<Num(MaxDraftTrades), Num(2), Frac(3, 2)>>,
   <<Frac(1, 2), Num(2), Num(0)>>}
DraftRiskPct == {Num(9)}
\* The session check boxes of the draft: the default plan, and a plan that
\* keeps Europe but trades Asia and off-peak instead of the US windows.
DraftSessions ==
  {[allowAsia |-> FALSE, allowEurope |-> TRUE, allowUS |-> TRUE,
    allowOverlap |-> TRUE, allowOffPeak |-> FALSE],
   [allowAsia |-> TRUE, allowEurope |-> TRUE, allowUS |-> FALSE,
    allowOverlap |-> FALSE, allowOffPeak |-> TRUE]}

\* Values of the log-trade form.
LogSides == {"LONG", "SHORT"}
LogEntries == {Num(2), Infinity}
LogStops == {Num(1), Num(2), Num(3)}
LogExits == {Num(1), Num(2), Infinity}

IntMax(a, b) == IF a < b THEN b ELSE a

(***************************************************************************)
(* Initial state: first start with an empty localStorage, after the mount  *)
(* effects have run.                                                       *)
(***************************************************************************)
Init ==
  /\ now \in {[day |-> 1, min |-> ClockMinutes[i]] : i \in 1..Len(ClockMinutes)}
  /\ commit = loadCommit(Null, 1)
  /\ dayState = loadDayState(Null, 1)
  /\ overrideGuard = FALSE
  /\ logOpen = FALSE
  /\ focusSymbol = "SOL"
  /\ market = <<>>
  /\ microMap = <<>>
  /\ structMap = <<>>
  /\ error = Null
  /\ isLoading = FALSE
  /\ lsCommit = Null
  /\ lsDayState = saveDayState(loadDayState(Null, 1))
  /\ probe = Null
  /\ lastOp = [op |-> "mount"]

(***************************************************************************)
(* Operations.  Every operation ends with the effects that React runs      *)
(* after the render: the auto-lock effect and the save of DayState.        *)
(***************************************************************************)
\* The state of the day after the effects have settled.
settle(c, st, dayKey) == autoLock(c, st, dayKey)

\* One step of the clock (setClockTick), with the day rollover effect.
Tick ==
  LET i == CHOOSE k \in 1..Len(ClockMinutes) : ClockMinutes[k] = now.min
      next == IF i < Len(ClockMinutes)
              THEN [day |-> now.day, min |-> ClockMinutes[i + 1]]
              ELSE [day |-> now.day + 1, min |-> ClockMinutes[1]]
      dk == next.day
      rolled == dayState.dayKey # dk
      c1 == IF rolled THEN loadCommit(lsCommit, dk) ELSE commit
      st1 == IF rolled THEN loadDayState(lsDayState, dk) ELSE dayState
      st2 == settle(c1, st1, dk)
  IN  /\ next.day <= MaxDay
      /\ now' = next
      /\ commit' = c1
      /\ dayState' = st2
      /\ overrideGuard' = IF rolled THEN FALSE ELSE overrideGuard
      /\ lsDayState' = saveDayState(st2)
      /\ lastOp' = IF rolled THEN [op |-> "rollover"] ELSE lastOp
      /\ UNCHANGED <<logOpen, lsCommit, assetVars, probe>>

\* Mutant: the max-trades field is floored but not raised to 1.
commitToday_NoMinimumTrades(draft) ==
  LET c == [dayKey |-> todayKey,
            riskPct |-> clamp(draft.riskPct, Frac(1, 10), Num(5)),
            maxTrades |-> MathFloor(draft.maxTrades),
            maxDailyLossR |-> MathMax(Frac(1, 2), draft.maxDailyLossR),
            maxConsecutiveLosses |->
              IntMax(1, MathFloor(draft.maxConsecutiveLosses)),
            allowAsia |-> draft.allowAsia,
            allowEurope |-> draft.allowEurope,
            allowUS |-> draft.allowUS,
            allowOverlap |-> draft.allowOverlap,
            allowOffPeak |-> draft.allowOffPeak]
      st2 == settle(c, dayState, todayKey)
  IN  /\ commitRequired
      /\ lsCommit' = saveCommit(c)
      /\ commit' = c
      /\ dayState' = st2
      /\ lsDayState' = saveDayState(st2)
      /\ lastOp' = [op |-> "commitToday"]
      /\ UNCHANGED <<now, overrideGuard, logOpen, assetVars, probe>>

\* Commit Today button (shown while a commitment is required).
commitToday(draft) ==
  LET c == [dayKey |-> todayKey,
            riskPct |-> clamp(draft.riskPct, Frac(1, 10), Num(5)),
            maxTrades |-> IntMax(1, MathFloor(draft.maxTrades)),
            maxDailyLossR |-> MathMax(Frac(1, 2), draft.maxDailyLossR),
            maxConsecutiveLosses |->
              IntMax(1, MathFloor(draft.maxConsecutiveLosses)),
            allowAsia |-> draft.allowAsia,
            allowEurope |-> draft.allowEurope,
            allowUS |-> draft.allowUS,
            allowOverlap |-> draft.allowOverlap,
            allowOffPeak |-> draft.allowOffPeak]
      st2 == settle(c, dayState, todayKey)
  IN  /\ commitRequired
      /\ lsCommit' = saveCommit(c)
      /\ commit' = c
      /\ dayState' = st2
      /\ lsDayState' = saveDayState(st2)
      /\ lastOp' = [op |-> "commitToday"]
      /\ UNCHANGED <<now, overrideGuard, logOpen, assetVars, probe>>

CommitToday ==
  \E caps \in DraftCaps, rp \in DraftRiskPct, ss \in DraftSessions :
    commitToday([maxTrades |-> caps[1], maxDailyLossR |-> caps[2],
                 maxConsecutiveLosses |-> caps[3], riskPct |-> rp,
                 allowAsia |-> ss.allowAsia, allowEurope |-> ss.allowEurope,
                 allowUS |-> ss.allowUS, allowOverlap |-> ss.allowOverlap,
                 allowOffPeak |-> ss.allowOffPeak])

\* Re-commit button (shown with today's commitment summary).
Recommit ==
  /\ ~commitRequired
  /\ commit' = Null
  /\ lsCommit' = Null
  /\ lastOp' = [op |-> "recommit"]
  /\ UNCHANGED <<now, dayState, overrideGuard, logOpen, lsDayState, assetVars, probe>>

\* Override check box (shown in a WAIT window, outside the plan, or locked).
SetOverride ==
  /\ sessionInfo.status = "WAIT" \/ ~sessionAllowedByCommit \/ dayState.locked
  /\ overrideGuard' = ~overrideGuard
  /\ UNCHANGED <<now, commit, dayState, logOpen, lsCommit, lsDayState, assetVars, probe, lastOp>>

\* Log Trade button (disabled unless trading is allowed).
openLogFromCurrent ==
  /\ ~commitRequired
  /\ tradingAllowed
  /\ logOpen' = TRUE
  /\ UNCHANGED <<now, commit, dayState, overrideGuard, lsCommit, lsDayState, assetVars, probe, lastOp>>

\* Close button or a click on the backdrop of the log-trade form.
closeLog ==
  /\ logOpen
  /\ logOpen' = FALSE
  /\ UNCHANGED <<now, commit, dayState, overrideGuard, lsCommit, lsDayState, assetVars, probe, lastOp>>

\* Mutant: the trade is appended without the check of its R multiple.
addTrade_Unchecked(logSide, logEntry, logStop, logExit) ==
  LET r == computeR(logSide, logEntry, logStop, logExit)
      trade == [symbol |-> focusSymbol, side |-> logSide, entry |-> logEntry,
                stop |-> logStop, exit |-> logExit, r |-> r]
      st1 == [dayState EXCEPT !.trades = Append(@, trade)]
      st2 == settle(commit, st1, todayKey)
  IN  /\ logOpen
      /\ dayState' = st2
      /\ logOpen' = FALSE
      /\ lsDayState' = saveDayState(st2)
      /\ lastOp' = [op |-> "addTrade"]
      /\ UNCHANGED <<now, commit, overrideGuard, lsCommit, assetVars, probe>>

\* Save Trade button of the log-trade form.
addTrade(logSide, logEntry, logStop, logExit) ==
  LET r == computeR(logSide, logEntry, logStop, logExit)
      trade == [symbol |-> focusSymbol, side |-> logSide, entry |-> logEntry,
                stop |-> logStop, exit |-> logExit, r |-> r]
      st1 == [dayState EXCEPT !.trades = Append(@, trade)]
      st2 == settle(commit, st1, todayKey)
  IN  /\ logOpen
      /\ IF ~isFinite(r)
           THEN /\ lastOp' = [op |-> "addTradeRejected"]
                /\ UNCHANGED <<dayState, logOpen, lsDayState>>
           ELSE /\ dayState' = st2
                /\ logOpen' = FALSE
                /\ lsDayState' = saveDayState(st2)
                /\ lastOp' = [op |-> "addTrade"]
      /\ UNCHANGED <<now, commit, overrideGuard, lsCommit, assetVars, probe>>

AddTrade ==
  \E side \in LogSides, entry \in LogEntries, stop \in LogStops, exit \in LogExits :
    addTrade(side, entry, stop, exit)

\* Mutant: end-session also switches the override off.
endSessionNow_ClearsOverride ==
  LET st1 == lockWith(dayState, "Manual END SESSION")
      st2 == settle(commit, st1, todayKey)
  IN  /\ ~commitRequired
      /\ ~dayState.locked
      /\ dayState' = st2
      /\ overrideGuard' = FALSE
      /\ lsDayState' = saveDayState(st2)
      /\ lastOp' = [op |-> "endSession"]
      /\ UNCHANGED <<now, commit, logOpen, lsCommit, assetVars, probe>>

\* END SESSION button (on the pages shown once committed; disabled when locked).
endSessionNow ==
  LET st1 == lockWith(dayState, "Manual END SESSION")
      st2 == settle(commit, st1, todayKey)
  IN  /\ ~commitRequired
      /\ ~dayState.locked
      /\ dayState' = st2
      /\ lsDayState' = saveDayState(st2)
      /\ lastOp' = [op |-> "endSession"]
      /\ UNCHANGED <<now, commit, overrideGuard, logOpen, lsCommit, assetVars, probe>>

\* Mutant: reset-day also discards the contract.
clearToday_DropsContract ==
  LET st2 == freshDayState(todayKey)
  IN  /\ ~commitRequired
      /\ dayState' = st2
      /\ lsDayState' = saveDayState(st2)
      /\ commit' = Null
      /\ lsCommit' = Null
      /\ lastOp' = [op |-> "clearToday"]
      /\ UNCHANGED <<now, overrideGuard, logOpen, assetVars, probe>>

\* Reset day button (on the dashboard, shown once committed).
clearToday ==
  \E confirmed \in BOOLEAN :
    LET fresh == freshDayState(todayKey)
        st2 == settle(commit, fresh, todayKey)
    IN  /\ ~commitRequired
        /\ IF ~confirmed
             THEN UNCHANGED <<dayState, lsDayState, lastOp>>
             ELSE /\ dayState' = st2
                  /\ lsDayState' = saveDayState(st2)
                  /\ lastOp' = [op |-> "clearToday"]
        /\ UNCHANGED <<now, commit, overrideGuard, logOpen, lsCommit, assetVars, probe>>

\* The page is closed and opened again, at once or at a later time: the state
\* is constructed again from localStorage.
reload(t) ==
  LET c == loadCommit(lsCommit, t.day)
      st1 == loadDayState(lsDayState, t.day)
      st2 == settle(c, st1, t.day)
  IN  /\ now' = t
      /\ commit' = c
      /\ dayState' = st2
      /\ overrideGuard' = FALSE
      /\ logOpen' = FALSE
      /\ focusSymbol' = "SOL"
      /\ market' = <<>>
      /\ microMap' = <<>>
      /\ structMap' = <<>>
      /\ error' = Null
      /\ isLoading' = FALSE
      /\ lsDayState' = saveDayState(st2)
      /\ lastOp' = [op |-> "reload"]
      /\ UNCHANGED <<lsCommit, probe>>

ClockIndex(m) == CHOOSE k \in 1..Len(ClockMinutes) : ClockMinutes[k] = m

Reload ==
  \E d \in now.day..MaxDay, i \in 1..Len(ClockMinutes) :
    /\ d > now.day \/ i >= ClockIndex(now.min)
    /\ reload([day |-> d, min |-> ClockMinutes[i]])

Next ==
  \/ Tick
  \/ CommitToday
  \/ Recommit
  \/ SetOverride
  \/ openLogFromCurrent
  \/ closeLog
  \/ AddTrade
  \/ endSessionNow
  \/ clearToday
  \/ Reload

Spec == Init /\ [][Next]_vars

(***************************************************************************)
(* Asset rows: the watch list, the refresh and the per-asset gate.         *)
(***************************************************************************)
\* The symbols of the watch list that the model follows.
COINS == <<"BTC", "SOL">>
\* The refresh computes entry quality and structure for the best TopN rows.
TopN == 10

EntryQualities == {"VALID", "EXTENDED", "NO_EDGE"}

\* Results of the structure stage for one asset: a result computed from the
\* candles, or the fallback stored when no candles or no price are available.
ComputedStructures ==
  {[ok |-> TRUE, label |-> "OK", source |-> "BINANCE_1H"],
   [ok |-> FALSE, label |-> "NO_EDGE", source |-> "BINANCE_1H"]}
MissingStructure == [ok |-> FALSE, label |-> "WAIT", source |-> "MISSING"]
\* The outcome of a candle fetch that throws.
FetchFailed == [failed |-> TRUE]

Range(f) == {f[x] : x \in DOMAIN f}

\* { ...prev, ...next }
Merge(prev, next) ==
  [x \in DOMAIN prev \cup DOMAIN next |->
     IF x \in DOMAIN next THEN next[x] ELSE prev[x]]

\* Mutant: a symbol without a stored structure result counts as structure OK.
setupRow_MissingIsOK(sym) ==
  [symbol |-> sym,
   entryQuality |->
     IF sym \in DOMAIN microMap THEN microMap[sym].entryQuality ELSE "VALID",
   structureLabel |->
     IF sym \in DOMAIN structMap THEN structMap[sym].label ELSE "OK",
   structureSource |->
     IF sym \in DOMAIN structMap THEN structMap[sym].source ELSE "MISSING"]

\* The row of a symbol in the setups table.
setupRow(sym) ==
  [symbol |-> sym,
   entryQuality |->
     IF sym \in DOMAIN microMap THEN microMap[sym].entryQuality ELSE "VALID",
   structureLabel |->
     IF sym \in DOMAIN structMap THEN structMap[sym].label ELSE "WAIT",
   structureSource |->
     IF sym \in DOMAIN structMap THEN structMap[sym].source ELSE "MISSING"]

setups == {setupRow(sym) : sym \in Range(market)}

\* Mutant: only a VALID entry quality passes the gate.
coinActionAllowedOf_ValidOnly(allowed, override, s) ==
  IF ~allowed THEN FALSE
  ELSE IF override THEN TRUE
  ELSE IF s.entryQuality # "VALID" THEN FALSE
  ELSE IF s.structureLabel # "OK" THEN FALSE
  ELSE TRUE

coinActionAllowedOf(allowed, override, s) ==
  IF ~allowed THEN FALSE
  ELSE IF override THEN TRUE
  ELSE IF s.entryQuality = "NO_EDGE" THEN FALSE
  ELSE IF s.structureLabel # "OK" THEN FALSE
  ELSE TRUE

coinActionAllowed(s) == coinActionAllowedOf(tradingAllowed, overrideGuard, s)

\* Mutant: one failing candle fetch keeps the whole previous structMap.
refresh_StructureAllOrNothing(snapshotOk, micro, struct) ==
  LET ranked == {COINS[i] : i \in 1..(IF Len(COINS) < TopN THEN Len(COINS) ELSE TopN)}
      nextMicro == [sym \in ranked |-> [entryQuality |-> micro[sym]]]
      nextStruct == [sym \in ranked |-> struct[sym]]
  IN  /\ isLoading' = FALSE
      /\ IF ~snapshotOk
        THEN /\ error' = [message |-> "Failed to fetch market data."]
             /\ UNCHANGED <<market, microMap, structMap>>
        ELSE /\ error' = Null
             /\ market' = COINS
             /\ microMap' = IF \E sym \in ranked : micro[sym] = "FAILED"
                              THEN microMap
                              ELSE Merge(microMap, nextMicro)
             /\ structMap' = IF \E sym \in ranked : struct[sym] = FetchFailed
                               THEN structMap
                               ELSE Merge(structMap, nextStruct)

\* Mutant: a failing hourly fetch also raises the error.
refresh_ErrorOnMicroFailure(snapshotOk, micro, struct) ==
  LET ranked == {COINS[i] : i \in 1..(IF Len(COINS) < TopN THEN Len(COINS) ELSE TopN)}
      nextMicro == [sym \in ranked |-> [entryQuality |-> micro[sym]]]
      nextStruct == [sym \in ranked |->
                       IF struct[sym] = FetchFailed THEN MissingStructure
                       ELSE struct[sym]]
      microFailed == \E sym \in ranked : micro[sym] = "FAILED"
  IN  /\ isLoading' = FALSE
      /\ IF ~snapshotOk
        THEN /\ error' = [message |-> "Failed to fetch market data."]
             /\ UNCHANGED <<market, microMap, structMap>>
        ELSE /\ error' = IF microFailed
                           THEN [message |-> "Failed to fetch market data."]
                           ELSE Null
             /\ market' = COINS
             /\ microMap' = IF microFailed THEN microMap
                            ELSE Merge(microMap, nextMicro)
             /\ structMap' = Merge(structMap, nextStruct)

\* A refresh whose stages run without another event in between.  The market
\* snapshot fails or succeeds; the hourly fetch of each ranked asset fails or
\* gives prices of some entry quality; the candle fetch of each ranked asset
\* fails or gives candles with some structure.
refresh(snapshotOk, micro, struct) ==
  LET ranked == {COINS[i] : i \in 1..(IF Len(COINS) < TopN THEN Len(COINS) ELSE TopN)}
      nextMicro == [sym \in ranked |-> [entryQuality |-> micro[sym]]]
      nextStruct == [sym \in ranked |->
                       IF struct[sym] = FetchFailed THEN MissingStructure
                       ELSE struct[sym]]
  IN  /\ isLoading' = FALSE
      /\ IF ~snapshotOk
        THEN /\ error' = [message |-> "Failed to fetch market data."]
             /\ UNCHANGED <<market, microMap, structMap>>
        ELSE /\ error' = Null
             /\ market' = COINS
             /\ microMap' = IF \E sym \in ranked : micro[sym] = "FAILED"
                              THEN microMap
                              ELSE Merge(microMap, nextMicro)
             /\ structMap' = Merge(structMap, nextStruct)

Refresh ==
  \E snapshotOk \in BOOLEAN,
     micro \in [Range(COINS) -> EntryQualities \cup {"FAILED"}],
     struct \in [Range(COINS) -> ComputedStructures \cup {FetchFailed}] :
    /\ refresh(snapshotOk, micro, struct)
    /\ UNCHANGED <<guardVars, focusSymbol, probe, lastOp>>

\* The operations of the guard together with the refresh, each fetch of a
\* refresh succeeding for every symbol or the snapshot failing.
SnapshotRefresh ==
  \E snapshotOk \in BOOLEAN :
    /\ refresh(snapshotOk,
               [sym \in Range(COINS) |-> "VALID"],
               [sym \in Range(COINS) |-> CHOOSE st \in ComputedStructures : st.ok])
    /\ UNCHANGED <<guardVars, focusSymbol, probe, lastOp>>

NextFrame == Next \/ SnapshotRefresh

SpecFrame == Init /\ [][NextFrame]_vars

\* A click on the tile or the row of a symbol (pages shown once committed).
selectCoin(sym) ==
  /\ ~commitRequired
  /\ sym \in Range(market)
  /\ coinActionAllowed(setupRow(sym))
  /\ focusSymbol' = sym
  /\ UNCHANGED <<guardVars, market, microMap, structMap, error, isLoading, probe,
                  lastOp>>

SelectCoin == \E sym \in Range(COINS) : selectCoin(sym)

\* The refresh alone, with the outcome of its fetches kept in probe.
ObservedRefresh ==
  \E snapshotOk \in BOOLEAN,
     micro \in [Range(COINS) -> EntryQualities \cup {"FAILED"}],
     struct \in [Range(COINS) -> ComputedStructures \cup {FetchFailed}] :
    /\ refresh(snapshotOk, micro, struct)
    /\ probe' = [fn |-> "refresh", args |-> <<snapshotOk, micro, struct>>,
                 done |-> TRUE, result |-> Null]
    /\ UNCHANGED <<guardVars, focusSymbol, lastOp>>

\* The refresh when the ranking of the snapshot need not hold every symbol
\* that the model follows: the watch list has more than TopN symbols, and
\* ranked is the set of followed symbols among the best TopN of this
\* snapshot.  micro and struct give the outcome of the fetches of the ranked
\* symbols.
\* Mutant: the rows of the snapshot are added to the rows already held.
refreshRanked_AppendsMarket(snapshotOk, ranked, micro, struct) ==
  LET nextMicro == [sym \in ranked |-> [entryQuality |-> micro[sym]]]
      nextStruct == [sym \in ranked |->
                       IF struct[sym] = FetchFailed THEN MissingStructure
                       ELSE struct[sym]]
  IN  /\ isLoading' = FALSE
      /\ IF ~snapshotOk
        THEN /\ error' = [message |-> "Failed to fetch market data."]
             /\ UNCHANGED <<market, microMap, structMap>>
        ELSE /\ error' = Null
             /\ market' = market \o COINS
             /\ microMap' = IF \E sym \in ranked : micro[sym] = "FAILED"
                              THEN microMap
                              ELSE Merge(microMap, nextMicro)
             /\ structMap' = Merge(structMap, nextStruct)

\* Mutant: the maps are replaced by the results of this refresh.
refreshRanked_ReplacesMaps(snapshotOk, ranked, micro, struct) ==
  LET nextMicro == [sym \in ranked |-> [entryQuality |-> micro[sym]]]
      nextStruct == [sym \in ranked |->
                       IF struct[sym] = FetchFailed THEN MissingStructure
                       ELSE struct[sym]]
  IN  /\ isLoading' = FALSE
      /\ IF ~snapshotOk
        THEN /\ error' = [message |-> "Failed to fetch market data."]
             /\ UNCHANGED <<market, microMap, structMap>>
        ELSE /\ error' = Null
             /\ market' = COINS
             /\ microMap' = IF \E sym \in ranked : micro[sym] = "FAILED"
                              THEN microMap
                              ELSE nextMicro
             /\ structMap' = nextStruct

refreshRanked(snapshotOk, ranked, micro, struct) ==
  LET nextMicro == [sym \in ranked |-> [entryQuality |-> micro[sym]]]
      nextStruct == [sym \in ranked |->
                       IF struct[sym] = FetchFailed THEN MissingStructure
                       ELSE struct[sym]]
  IN  /\ isLoading' = FALSE
      /\ IF ~snapshotOk
        THEN /\ error' = [message |-> "Failed to fetch market data."]
             /\ UNCHANGED <<market, microMap, structMap>>
        ELSE /\ error' = Null
             /\ market' = COINS
             /\ microMap' = IF \E sym \in ranked : micro[sym] = "FAILED"
                              THEN microMap
                              ELSE Merge(microMap, nextMicro)
             /\ structMap' = Merge(structMap, nextStruct)

\* The upstream responses of one refresh: a failed snapshot, or a snapshot
\* with its ranking and the outcome of the fetches of the ranked symbols.
Responses ==
  {<<FALSE, {}, <<>>, <<>>>>}
    \cup UNION {{<<TRUE, ranked, micro, struct>> :
                   micro \in [ranked -> EntryQualities \cup {"FAILED"}],
                   struct \in [ranked -> ComputedStructures \cup {FetchFailed}]} :
                 ranked \in {r \in SUBSET Range(COINS) : Cardinality(r) <= TopN}}

\* A refresh with its responses kept in probe; repeated tells that the
\* refresh before it received the same responses.
ObservedRankedRefresh ==
  \E resp \in Responses :
    /\ refreshRanked(resp[1], resp[2], resp[3], resp[4])
    /\ probe' = [fn |-> "refresh", args |-> resp, done |-> TRUE, result |-> Null,
                 repeated |-> IF probe = Null THEN FALSE ELSE probe.args = resp]
    /\ UNCHANGED <<guardVars, focusSymbol, lastOp>>

\* The refresh in its stages, for invocations that overlap: an invocation
\* runs up to its next await, and the other may run between two stages.
\* probe.calls holds the position and the responses of each invocation;
\* probe.microOrder and probe.structOrder hold the order in which the
\* invocations passed the two stages.
Invocations == 1..2

nextMicroOf(resp) ==
  IF \E sym \in resp[2] : resp[3][sym] = "FAILED" THEN <<>>
  ELSE [sym \in resp[2] |-> [entryQuality |-> resp[3][sym]]]

nextStructOf(resp) ==
  [sym \in resp[2] |->
     IF resp[4][sym] = FetchFailed THEN MissingStructure ELSE resp[4][sym]]

refreshStart(i, resp) ==
  /\ probe.calls[i].pc = "idle"
  /\ isLoading' = TRUE
  /\ error' = Null
  /\ probe' = [probe EXCEPT !.calls[i] = [pc |-> "markets", resp |-> resp]]
  /\ UNCHANGED <<guardVars, focusSymbol, market, microMap, structMap, lastOp>>

\* Mutant: a rejected snapshot fetch leaves the invocation where it is (no
\* catch, no finally).
refreshMarkets_RejectionHangs(i) ==
  /\ probe.calls[i].pc = "markets"
  /\ probe.calls[i].resp[1]
  /\ market' = COINS
  /\ probe' = [probe EXCEPT !.calls[i].pc = "micro"]
  /\ UNCHANGED <<guardVars, focusSymbol, microMap, structMap, error, isLoading, lastOp>>

refreshMarkets(i) ==
  /\ probe.calls[i].pc = "markets"
  /\ IF probe.calls[i].resp[1]
       THEN /\ market' = COINS
            /\ probe' = [probe EXCEPT !.calls[i].pc = "micro"]
            /\ UNCHANGED <<error, isLoading>>
       ELSE /\ error' = [message |-> "Failed to fetch market data."]
            /\ isLoading' = FALSE
            /\ probe' = [probe EXCEPT !.calls[i].pc = "done"]
            /\ UNCHANGED market
  /\ UNCHANGED <<guardVars, focusSymbol, microMap, structMap, lastOp>>

\* Mutant: the results of an invocation are dropped when another invocation
\* has passed the stage before it.
mergeResults_FirstWins(prev, next, order) ==
  IF order = <<>> THEN Merge(prev, next) ELSE prev

mergeResults(prev, next, order) == Merge(prev, next)

refreshMicro(i) ==
  /\ probe.calls[i].pc = "micro"
  /\ microMap' = mergeResults(microMap, nextMicroOf(probe.calls[i].resp), probe.microOrder)
  /\ probe' = [probe EXCEPT !.calls[i].pc = "struct",
                            !.microOrder = Append(@, i)]
  /\ UNCHANGED <<guardVars, focusSymbol, market, structMap, error, isLoading, lastOp>>

refreshStruct(i) ==
  /\ probe.calls[i].pc = "struct"
  /\ structMap' = mergeResults(structMap, nextStructOf(probe.calls[i].resp), probe.structOrder)
  /\ probe' = [probe EXCEPT !.calls[i].pc = "done",
                            !.structOrder = Append(@, i)]
  /\ isLoading' = FALSE
  /\ UNCHANGED <<guardVars, focusSymbol, market, microMap, error, lastOp>>

\* The guard operations that decide the gates, with the refresh and the
\* choice of the focus symbol.
NextAssets ==
  \/ CommitToday
  \/ SetOverride
  \/ endSessionNow
  \/ Refresh
  \/ SelectCoin

SpecAssets == Init /\ [][NextAssets]_vars

(***************************************************************************)
(* Calls of the pure functions on bounded inputs.                          *)
(***************************************************************************)
\* Entry quality from the hourly prices of the last day.  A percentage is
\* ((last - base) / base) * 100; it is NaN when an operand is missing.
Times(a, b) == Frac(a.n * b.n, a.d * b.d)

Pct(last, base) == Times(Over(Minus(last, base), base), Num(100))

RECURSIVE SeqMax(_)
SeqMax(s) ==
  IF Len(s) = 0 THEN Negate(Infinity) ELSE MathMax(s[1], SeqMax(Tail(s)))

RECURSIVE SeqMin(_)
SeqMin(s) ==
  IF Len(s) = 0 THEN Infinity ELSE MathMin(s[1], SeqMin(Tail(s)))

\* prices[i] ?? NaN, for a JavaScript index i
At(prices, i) == IF i + 1 \in 1..Len(prices) THEN prices[i + 1] ELSE NaN

(***************************************************************************)
(* scoreSetup: the activity scores of a market row.                        *)
(***************************************************************************)
\* The value an arithmetic result has as a double: beyond MaxNumber it is an
\* infinity.  Rounding of the mantissa is not modelled.
ToDouble(x) ==
  IF isFinite(x) /\ Less(Num(MaxNumber), MathAbs(x))
    THEN [n |-> Sign(x.n), d |-> 0]
    ELSE x

\* Math.log10 of a number >= 1: exact at the powers of ten, and between two
\* powers of ten on the straight line between them.
RECURSIVE MathLog10(_)
MathLog10(x) ==
  IF isNaN(x) \/ Less(x, Num(0)) THEN NaN
  ELSE IF x = Infinity THEN Infinity
  ELSE IF x = Num(0) THEN Negate(Infinity)
  ELSE IF Less(x, Num(1)) THEN Minus(MathLog10(Times(x, Num(10))), Num(1))
  ELSE IF Less(x, Num(10)) THEN Over(Minus(x, Num(1)), Num(9))
  ELSE Plus(Num(1), MathLog10(Over(x, Num(10))))

\* x ?? 0
OrZero(x) == IF x = Null THEN Num(0) ELSE x

\* Mutant: the combined score is the plain sum of the two weighted scores
\* with the bonus, without the last clamp.
scoreSetup_CombinedUnclamped(row, baselineVol) ==
  LET ch == OrZero(row.change24h)
      vol == OrZero(row.volume24hUsd)
      volFactor == IF Less(Num(0), baselineVol)
                     THEN ToDouble(Over(vol, baselineVol)) ELSE Num(1)
      changeScore == clamp(ToDouble(Plus(Num(50), ToDouble(Times(ch, Num(4))))),
                           Num(0), Num(100))
      volScore == clamp(Plus(Num(50),
                             Times(MathLog10(MathMax(Num(1), volFactor)), Num(25))),
                        Num(0), Num(100))
      score15m == clamp(Plus(Plus(Times(changeScore, Frac(55, 100)),
                                  Times(volScore, Frac(45, 100))), Num(4)),
                        Num(0), Num(100))
      score1h == clamp(Plus(Times(changeScore, Frac(65, 100)),
                            Times(volScore, Frac(35, 100))),
                       Num(0), Num(100))
      combined == Plus(Plus(score15m, score1h), Num(4))
  IN  [combinedScore |-> combined, score15m |-> score15m, score1h |-> score1h,
       volFactor |-> volFactor,
       why |-> (IF LessEq(Num(80), combined)
                  THEN <<"High participation + strong tape">> ELSE <<>>)
               \o (IF LessEq(Num(65), combined) /\ Less(combined, Num(80))
                     THEN <<"Tradable activity">> ELSE <<>>)
               \o (IF LessEq(Frac(13, 10), volFactor)
                     THEN <<"Volume elevated vs baseline">> ELSE <<>>)
               \o (IF LessEq(Num(3), ch) THEN <<"Positive 24h trend">> ELSE <<>>)
               \o (IF Less(ch, Num(0))
                     THEN <<"24h negative - be selective">> ELSE <<>>)]

scoreSetup(row, baselineVol) ==
  LET ch == OrZero(row.change24h)
      vol == OrZero(row.volume24hUsd)
      volFactor == IF Less(Num(0), baselineVol)
                     THEN ToDouble(Over(vol, baselineVol)) ELSE Num(1)
      changeScore == clamp(ToDouble(Plus(Num(50), ToDouble(Times(ch, Num(4))))),
                           Num(0), Num(100))
      volScore == clamp(Plus(Num(50),
                             Times(MathLog10(MathMax(Num(1), volFactor)), Num(25))),
                        Num(0), Num(100))
      score15m == clamp(Plus(Plus(Times(changeScore, Frac(55, 100)),
                                  Times(volScore, Frac(45, 100))), Num(4)),
                        Num(0), Num(100))
      score1h == clamp(Plus(Times(changeScore, Frac(65, 100)),
                            Times(volScore, Frac(35, 100))),
                       Num(0), Num(100))
      combined == clamp(Plus(Times(score15m, Frac(48, 100)),
                             Times(score1h, Frac(52, 100))),
                        Num(0), Num(100))
  IN  [combinedScore |-> combined, score15m |-> score15m, score1h |-> score1h,
       volFactor |-> volFactor,
       why |-> (IF LessEq(Num(80), combined)
                  THEN <<"High participation + strong tape">> ELSE <<>>)
               \o (IF LessEq(Num(65), combined) /\ Less(combined, Num(80))
                     THEN <<"Tradable activity">> ELSE <<>>)
               \o (IF LessEq(Frac(13, 10), volFactor)
                     THEN <<"Volume elevated vs baseline">> ELSE <<>>)
               \o (IF LessEq(Num(3), ch) THEN <<"Positive 24h trend">> ELSE <<>>)
               \o (IF Less(ch, Num(0))
                     THEN <<"24h negative - be selective">> ELSE <<>>)]

\* Mutant: the pullback rule is tested before the fast-dump rule.
computeMicro_PullbackFirst(prices) ==
  LET n == Len(prices)
      last == At(prices, n - 1)
      p1h == At(prices, IntMax(0, n - 2))
      p4h == At(prices, IntMax(0, n - 5))
      window6h == SubSeq(prices, IntMax(0, n - 7) + 1, n)
      high6h == SeqMax(window6h)
      low6h == SeqMin(window6h)
      ret1h == Pct(last, p1h)
      dropFromHigh6h == Pct(last, high6h)
      spikeFromLow6h == Pct(last, low6h)
      metrics == [ret1h |-> ret1h, ret4h |-> Pct(last, p4h),
                  dropFromHigh6h |-> dropFromHigh6h,
                  spikeFromLow6h |-> spikeFromLow6h]
  IN  IF LessEq(dropFromHigh6h, Num(-4))
        THEN metrics @@ [entryQuality |-> "EXTENDED",
                         whyNot |-> <<"Pullback from 6h high",
                                      "WAIT for base / reclaim">>]
      ELSE IF LessEq(ret1h, Num(-3))
        THEN metrics @@ [entryQuality |-> "NO_EDGE",
                         whyNot |-> <<"Fast dump in ~1h",
                                      "Wait for base or reclaim">>]
      ELSE IF LessEq(Num(6), spikeFromLow6h)
        THEN metrics @@ [entryQuality |-> "EXTENDED",
                         whyNot |-> <<"Extended from 6h low", "Don't chase">>]
      ELSE metrics @@ [entryQuality |-> "VALID", whyNot |-> <<>>]

\* The reasons keep the fixed part of their text; the formatted percentage
\* is left out.  Math.max and Math.min of the empty window are infinite and
\* only meet a NaN last price, which makes every percentage NaN.
computeMicro(prices) ==
  LET n == Len(prices)
      last == At(prices, n - 1)
      p1h == At(prices, IntMax(0, n - 2))
      p4h == At(prices, IntMax(0, n - 5))
      window6h == SubSeq(prices, IntMax(0, n - 7) + 1, n)
      high6h == SeqMax(window6h)
      low6h == SeqMin(window6h)
      ret1h == Pct(last, p1h)
      dropFromHigh6h == Pct(last, high6h)
      spikeFromLow6h == Pct(last, low6h)
      metrics == [ret1h |-> ret1h, ret4h |-> Pct(last, p4h),
                  dropFromHigh6h |-> dropFromHigh6h,
                  spikeFromLow6h |-> spikeFromLow6h]
  IN  IF LessEq(ret1h, Num(-3))
        THEN metrics @@ [entryQuality |-> "NO_EDGE",
                         whyNot |-> <<"Fast dump in ~1h",
                                      "Wait for base or reclaim">>]
      ELSE IF LessEq(dropFromHigh6h, Num(-4))
        THEN metrics @@ [entryQuality |-> "EXTENDED",
                         whyNot |-> <<"Pullback from 6h high",
                                      "WAIT for base / reclaim">>]
      ELSE IF LessEq(Num(6), spikeFromLow6h)
        THEN metrics @@ [entryQuality |-> "EXTENDED",
                         whyNot |-> <<"Extended from 6h low", "Don't chase">>]
      ELSE metrics @@ [entryQuality |-> "VALID", whyNot |-> <<>>]

\* Prices given to computeR: the prices of the documented examples, small
\* fractions around zero, and the non-finite values.
RPrices ==
  {Num(90), Num(95), Num(100), Num(105), Num(110)}
    \cup {Frac(k, 2) : k \in (-1)..MaxPrice}
    \cup {NaN, Infinity}

InitR ==
  /\ now = [day |-> 1, min |-> ClockMinutes[1]]
  /\ commit = Null
  /\ dayState = freshDayState(1)
  /\ overrideGuard = FALSE
  /\ logOpen = FALSE
  /\ focusSymbol = "SOL"
  /\ market = <<>>
  /\ microMap = <<>>
  /\ structMap = <<>>
  /\ error = Null
  /\ isLoading = FALSE
  /\ lsCommit = Null
  /\ lsDayState = saveDayState(freshDayState(1))
  /\ lastOp = [op |-> "mount"]
  /\ probe \in {[fn |-> "computeR", args |-> <<side, entry, stop, exit>>,
                 done |-> FALSE, result |-> Null] :
                  side \in LogSides, entry \in RPrices, stop \in RPrices,
                  exit \in RPrices}

CallComputeR ==
  /\ probe # Null
  /\ probe.fn = "computeR"
  /\ ~probe.done
  /\ probe' = [probe EXCEPT
                 !.done = TRUE,
                 !.result = computeR(probe.args[1], probe.args[2],
                                     probe.args[3], probe.args[4])]
  /\ UNCHANGED <<guardVars, assetVars, lastOp>>

NextR == CallComputeR

SpecR == InitR /\ [][NextR]_vars

\* Pivot levels of a series of 1h candles.  A candle is [h, l]; the result
\* holds the zones of each side in the order in which the Map met them.
\* Math.round: the nearest integer, a half going up.
MathRound(a) == MathFloor(Plus(a, Frac(1, 2)))

\* Mutant: the price is cut down to the grid instead of rounded.
zone_Truncates(x) ==
  IF LessEq(Num(1000), x) THEN Times(Num(MathFloor(Over(x, Num(10)))), Num(10))
  ELSE IF LessEq(Num(100), x) THEN Num(MathFloor(x))
  ELSE IF LessEq(Num(1), x)
    THEN Times(Num(MathFloor(Over(x, Frac(1, 100)))), Frac(1, 100))
  ELSE Times(Num(MathFloor(Over(x, Frac(1, 1000000)))), Frac(1, 1000000))

zone(x) ==
  IF LessEq(Num(1000), x) THEN Times(Num(MathRound(Over(x, Num(10)))), Num(10))
  ELSE IF LessEq(Num(100), x) THEN Num(MathRound(x))
  ELSE IF LessEq(Num(1), x)
    THEN Times(Num(MathRound(Over(x, Frac(1, 100)))), Frac(1, 100))
  ELSE Times(Num(MathRound(Over(x, Frac(1, 1000000)))), Frac(1, 1000000))

\* map.set(zone(p), (map.get(zone(p)) ?? 0) + 1) on the entries of the Map
mapSet(entries, z) ==
  IF \E k \in 1..Len(entries) : entries[k].price = z
    THEN [k \in 1..Len(entries) |->
            IF entries[k].price = z
              THEN [entries[k] EXCEPT !.strength = @ + 1]
              ELSE entries[k]]
    ELSE Append(entries, [price |-> z, strength |-> 1])

RECURSIVE countZones(_)
countZones(arr) ==
  IF arr = <<>> THEN <<>>
  ELSE mapSet(countZones(SubSeq(arr, 1, Len(arr) - 1)), zone(arr[Len(arr)]))

\* Mutant: a high that equals a neighbour's high is a pivot as well.
resistancePivots_NotStrict(candles) ==
  LET n == Len(candles)
      IsPivot(k) == /\ k - 1 >= 2
                    /\ k - 1 < n - 2
                    /\ LessEq(candles[k - 1].h, candles[k].h)
                    /\ LessEq(candles[k + 1].h, candles[k].h)
      at == SelectSeq([k \in 1..n |-> k], IsPivot)
  IN  [j \in 1..Len(at) |-> candles[at[j]].h]

\* The highs and the lows that the loop pushes; candles[k] is the candle of
\* the JavaScript index k - 1.
resistancePivots(candles) ==
  LET n == Len(candles)
      IsPivot(k) == /\ k - 1 >= 2
                    /\ k - 1 < n - 2
                    /\ Less(candles[k - 1].h, candles[k].h)
                    /\ Less(candles[k + 1].h, candles[k].h)
      at == SelectSeq([k \in 1..n |-> k], IsPivot)
  IN  [j \in 1..Len(at) |-> candles[at[j]].h]

supportPivots(candles) ==
  LET n == Len(candles)
      IsPivot(k) == /\ k - 1 >= 2
                    /\ k - 1 < n - 2
                    /\ Less(candles[k].l, candles[k - 1].l)
                    /\ Less(candles[k].l, candles[k + 1].l)
      at == SelectSeq([k \in 1..n |-> k], IsPivot)
  IN  [j \in 1..Len(at) |-> candles[at[j]].l]

computePivotLevels1h(candles) ==
  [supports |-> countZones(supportPivots(candles)),
   resistances |-> countZones(resistancePivots(candles))]

\* Structure from the pivot zones.  A zone is [price, strength]; the zones
\* of one side have different prices.  A field that the code leaves out of
\* the result is Null.
RECURSIVE sortAsc(_)
sortAsc(zones) ==
  IF zones = {} THEN <<>>
  ELSE LET z == CHOOSE x \in zones : \A y \in zones : LessEq(x.price, y.price)
       IN  <<z>> \o sortAsc(zones \ {z})

RECURSIVE sortDesc(_)
sortDesc(zones) ==
  IF zones = {} THEN <<>>
  ELSE LET z == CHOOSE x \in zones : \A y \in zones : LessEq(y.price, x.price)
       IN  <<z>> \o sortDesc(zones \ {z})

\* s[0], undefined for the empty array; after a filter it is what
\* Array.prototype.find gives.
first(s) == IF s = <<>> THEN Null ELSE s[1]

StructureResult(ok, label, reasons, support, resistance, roomTo2R) ==
  [ok |-> ok, label |-> label, reasons |-> reasons, support |-> support,
   resistance |-> resistance, roomTo2R |-> roomTo2R, source |-> "BINANCE_1H"]

\* Mutant: the nearest resistance candidate is the target, whatever its room.
evaluateStructure_NearestOnly(lastPrice, levels) ==
  LET supportsBelow ==
        sortDesc({x \in levels.supports : Less(x.price, lastPrice)})
      resistAbove ==
        sortAsc({x \in levels.resistances : Less(lastPrice, x.price)})
  IN  IF supportsBelow = <<>>
        THEN StructureResult(FALSE, "WAIT", <<"No support below">>, Null, Null, Null)
      ELSE
        LET support == supportsBelow[1].price
            risk == Minus(lastPrice, support)
            maxTargetDistance == Times(lastPrice, Frac(15, 100))
            InReach(r) == LessEq(Minus(r.price, lastPrice), maxTargetDistance)
            candidates == SelectSeq(resistAbove, InReach)
            chosen == first(candidates)
        IN  IF chosen = Null
              THEN StructureResult(FALSE, "WAIT", <<"No resistance above">>,
                                   support, Null, Null)
            ELSE
              LET resistance == chosen.price
                  roomTo2R == Over(Minus(resistance, lastPrice), risk)
                  weak == supportsBelow[1].strength < 2 \/ chosen.strength < 2
              IN  IF Less(roomTo2R, Num(2))
                    THEN StructureResult(FALSE, "NO_EDGE", <<"Room-to-2R fails">>,
                                         support, resistance, roomTo2R)
                    ELSE StructureResult(TRUE, "OK",
                                         IF weak THEN <<"Levels are weak">> ELSE <<>>,
                                         support, resistance, roomTo2R)

\* Mutant: every resistance above the price is a candidate, however far.
evaluateStructure_NoReachLimit(lastPrice, levels) ==
  LET supportsBelow ==
        sortDesc({x \in levels.supports : Less(x.price, lastPrice)})
      resistAbove ==
        sortAsc({x \in levels.resistances : Less(lastPrice, x.price)})
  IN  IF supportsBelow = <<>>
        THEN StructureResult(FALSE, "WAIT", <<"No support below">>, Null, Null, Null)
      ELSE
        LET support == supportsBelow[1].price
            risk == Minus(lastPrice, support)
            maxTargetDistance == Times(lastPrice, Frac(15, 100))
            InReach(r) == LessEq(Minus(r.price, lastPrice), maxTargetDistance)
            GivesTwoR(r) == LessEq(Num(2), Over(Minus(r.price, lastPrice), risk))
            candidates == resistAbove
            found == first(SelectSeq(candidates, GivesTwoR))
            chosen == IF found # Null THEN found
                      ELSE first(candidates)
        IN  IF ~Less(Num(0), risk)
              THEN StructureResult(FALSE, "NO_EDGE", <<"Invalid structure">>,
                                   support, Null, Null)
            ELSE IF chosen = Null
              THEN StructureResult(FALSE, "WAIT", <<"No resistance above">>,
                                   support, Null, Null)
            ELSE
              LET resistance == chosen.price
                  roomTo2R == Over(Minus(resistance, lastPrice), risk)
                  weak == supportsBelow[1].strength < 2 \/ chosen.strength < 2
              IN  IF Less(roomTo2R, Num(2))
                    THEN StructureResult(FALSE, "NO_EDGE", <<"Room-to-2R fails">>,
                                         support, resistance, roomTo2R)
                    ELSE StructureResult(TRUE, "OK",
                                         IF weak THEN <<"Levels are weak">> ELSE <<>>,
                                         support, resistance, roomTo2R)

\* Mutant: a support at the price itself counts as a support below.
evaluateStructure_SupportAtPrice(lastPrice, levels) ==
  LET supportsBelow ==
        sortDesc({x \in levels.supports : LessEq(x.price, lastPrice)})
      resistAbove ==
        sortAsc({x \in levels.resistances : Less(lastPrice, x.price)})
  IN  IF supportsBelow = <<>>
        THEN StructureResult(FALSE, "WAIT", <<"No support below">>, Null, Null, Null)
      ELSE
        LET support == supportsBelow[1].price
            risk == Minus(lastPrice, support)
            maxTargetDistance == Times(lastPrice, Frac(15, 100))
            InReach(r) == LessEq(Minus(r.price, lastPrice), maxTargetDistance)
            GivesTwoR(r) == LessEq(Num(2), Over(Minus(r.price, lastPrice), risk))
            candidates == SelectSeq(resistAbove, InReach)
            found == first(SelectSeq(candidates, GivesTwoR))
            chosen == IF found # Null THEN found
                      ELSE first(candidates)
        IN  IF ~Less(Num(0), risk)
              THEN StructureResult(FALSE, "NO_EDGE", <<"Invalid structure">>,
                                   support, Null, Null)
            ELSE IF chosen = Null
              THEN StructureResult(FALSE, "WAIT", <<"No resistance above">>,
                                   support, Null, Null)
            ELSE
              LET resistance == chosen.price
                  roomTo2R == Over(Minus(resistance, lastPrice), risk)
                  weak == supportsBelow[1].strength < 2 \/ chosen.strength < 2
              IN  IF Less(roomTo2R, Num(2))
                    THEN StructureResult(FALSE, "NO_EDGE", <<"Room-to-2R fails">>,
                                         support, resistance, roomTo2R)
                    ELSE StructureResult(TRUE, "OK",
                                         IF weak THEN <<"Levels are weak">> ELSE <<>>,
                                         support, resistance, roomTo2R)

evaluateStructure(lastPrice, levels) ==
  LET supportsBelow ==
        sortDesc({x \in levels.supports : Less(x.price, lastPrice)})
      resistAbove ==
        sortAsc({x \in levels.resistances : Less(lastPrice, x.price)})
  IN  IF supportsBelow = <<>>
        THEN StructureResult(FALSE, "WAIT", <<"No support below">>, Null, Null, Null)
      ELSE
        LET support == supportsBelow[1].price
            risk == Minus(lastPrice, support)
            maxTargetDistance == Times(lastPrice, Frac(15, 100))
            InReach(r) == LessEq(Minus(r.price, lastPrice), maxTargetDistance)
            GivesTwoR(r) == LessEq(Num(2), Over(Minus(r.price, lastPrice), risk))
            candidates == SelectSeq(resistAbove, InReach)
            found == first(SelectSeq(candidates, GivesTwoR))
            chosen == IF found # Null THEN found
                      ELSE first(candidates)
        IN  IF ~Less(Num(0), risk)
              THEN StructureResult(FALSE, "NO_EDGE", <<"Invalid structure">>,
                                   support, Null, Null)
            ELSE IF chosen = Null
              THEN StructureResult(FALSE, "WAIT", <<"No resistance above">>,
                                   support, Null, Null)
            ELSE
              LET resistance == chosen.price
                  roomTo2R == Over(Minus(resistance, lastPrice), risk)
                  weak == supportsBelow[1].strength < 2 \/ chosen.strength < 2
              IN  IF Less(roomTo2R, Num(2))
                    THEN StructureResult(FALSE, "NO_EDGE", <<"Room-to-2R fails">>,
                                         support, resistance, roomTo2R)
                    ELSE StructureResult(TRUE, "OK",
                                         IF weak THEN <<"Levels are weak">> ELSE <<>>,
                                         support, resistance, roomTo2R)

\* A call of a pure function on one of the given argument tuples, from the
\* state of a fresh start.
InitProbe(calls) ==
  /\ now = [day |-> 1, min |-> ClockMinutes[1]]
  /\ commit = Null
  /\ dayState = freshDayState(1)
  /\ overrideGuard = FALSE
  /\ logOpen = FALSE
  /\ focusSymbol = "SOL"
  /\ market = <<>>
  /\ microMap = <<>>
  /\ structMap = <<>>
  /\ error = Null
  /\ isLoading = FALSE
  /\ lsCommit = Null
  /\ lsDayState = saveDayState(freshDayState(1))
  /\ lastOp = [op |-> "mount"]
  /\ probe \in calls

Call(fn, args) == [fn |-> fn, args |-> args, done |-> FALSE, result |-> Null]

\* Hourly price series given to computeMicro: up to MaxSeries prices, so
\* that the oldest lie outside the window of the last seven.
MaxSeries == 8
MicroPrices == {Num(94), Num(97), Num(100), Num(106)}
SeriesOf(values, maxLen) == UNION {[1..n -> values] : n \in 0..maxLen}

InitMicro ==
  InitProbe({Call("computeMicro", <<prices>>) :
               prices \in SeriesOf(MicroPrices, MaxSeries)})

CallComputeMicro ==
  /\ probe # Null
  /\ probe.fn = "computeMicro"
  /\ ~probe.done
  /\ probe' = [probe EXCEPT !.done = TRUE,
                            !.result = computeMicro(probe.args[1])]
  /\ UNCHANGED <<guardVars, assetVars, lastOp>>

NextMicro == CallComputeMicro

SpecMicro == InitMicro /\ [][NextMicro]_vars

\* Zones and prices given to evaluateStructure: supports and resistances on
\* both sides of the price, with 1 to MaxTouches touches.
MaxTouches == 2
SupportPrices == {Num(98), Num(100), Num(102)}
ResistancePrices == {Num(102), Num(106), Num(108), Num(115), Num(120)}
StructurePrices == {Num(100), Frac(201, 2), Num(104)}
ZoneSets(prices) ==
  UNION {{{[price |-> p, strength |-> f[p]] : p \in D} :
            f \in [D -> 1..MaxTouches]} : D \in SUBSET prices}

InitStructure ==
  InitProbe({Call("evaluateStructure",
                  <<lastPrice, [supports |-> s, resistances |-> r]>>) :
               lastPrice \in StructurePrices,
               s \in ZoneSets(SupportPrices),
               r \in ZoneSets(ResistancePrices)})

CallEvaluateStructure ==
  /\ probe # Null
  /\ probe.fn = "evaluateStructure"
  /\ ~probe.done
  /\ probe' = [probe EXCEPT
                 !.done = TRUE,
                 !.result = evaluateStructure(probe.args[1], probe.args[2])]
  /\ UNCHANGED <<guardVars, assetVars, lastOp>>

NextStructure == CallEvaluateStructure

SpecStructure == InitStructure /\ [][NextStructure]_vars

\* Price series that hold a price of zero, which the filter of the hourly
\* fetch lets pass as any other finite number.
ZeroPrices == {Num(0), Num(100), Num(106)}

InitMicroZero ==
  InitProbe({Call("computeMicro", <<prices>>) :
               prices \in SeriesOf(ZeroPrices, MaxSeries)})

SpecMicroZero == InitMicroZero /\ [][NextMicro]_vars

\* Candle series given to the structure engine.  A series takes its candles
\* from one price range, so that every branch of the zone rounding is met:
\* a flat candle, a candle with a higher high, and a candle with a still
\* higher high and a lower low.  Above 1 a price lies exactly between two
\* zones or two highs share a zone; below 1 the prices lie on the grid.
MaxCandles == 7
Candle(h, l) == [h |-> h, l |-> l]
CandleRanges ==
  { [price |-> Num(1800),
     kinds |-> {Candle(Num(2000), Num(1500)), Candle(Num(2012), Num(1500)),
                Candle(Num(2014), Num(1495))}],
    [price |-> Num(180),
     kinds |-> {Candle(Num(200), Num(150)), Candle(Frac(1002, 5), Num(150)),
                Candle(Frac(401, 2), Frac(299, 2))}],
    [price |-> Frac(9, 5),
     kinds |-> {Candle(Num(2), Frac(3, 2)), Candle(Frac(501, 250), Frac(3, 2)),
                Candle(Frac(1003, 500), Frac(299, 200))}],
    [price |-> Frac(1, 5),
     kinds |-> {Candle(Frac(1, 4), Frac(1, 8)), Candle(Frac(3, 8), Frac(1, 8)),
                Candle(Frac(1, 2), Frac(1, 16))}] }

InitPivots ==
  InitProbe(UNION {{Call("computePivotLevels1h", <<candles, range.price>>) :
                      candles \in SeriesOf(range.kinds, MaxCandles)} :
                    range \in CandleRanges})

\* The structure of one asset from its candles: the pivot levels and the
\* result of evaluateStructure on them.
CallComputePivotLevels1h ==
  /\ probe # Null
  /\ probe.fn = "computePivotLevels1h"
  /\ ~probe.done
  /\ LET levels == computePivotLevels1h(probe.args[1])
     IN  probe' = [probe EXCEPT
                     !.done = TRUE,
                     !.result =
                        [levels |-> levels,
                         res |-> evaluateStructure(
                                   probe.args[2],
                                   [supports |-> Range(levels.supports),
                                    resistances |-> Range(levels.resistances)])]]
  /\ UNCHANGED <<guardVars, assetVars, lastOp>>

NextPivots == CallComputePivotLevels1h

SpecPivots == InitPivots /\ [][NextPivots]_vars

\* The structure stage for one asset: the fallback when the row has no price
\* or the candle fetch throws, else the structure of the candles.
\* Mutant: the fallback is labelled NO_EDGE.
structureOf_FallbackNoEdge(price, fetched) ==
  IF price = Null \/ price = Num(0) \/ ~isFinite(price)
    THEN [ok |-> FALSE, label |-> "NO_EDGE", source |-> "MISSING"]
  ELSE IF fetched = FetchFailed
    THEN [ok |-> FALSE, label |-> "NO_EDGE", source |-> "MISSING"]
  ELSE LET levels == computePivotLevels1h(fetched.candles)
       IN  evaluateStructure(price, [supports |-> Range(levels.supports),
                                     resistances |-> Range(levels.resistances)])

structureOf(price, fetched) ==
  IF price = Null \/ price = Num(0) \/ ~isFinite(price) THEN MissingStructure
  ELSE IF fetched = FetchFailed THEN MissingStructure
  ELSE LET levels == computePivotLevels1h(fetched.candles)
       IN  evaluateStructure(price, [supports |-> Range(levels.supports),
                                     resistances |-> Range(levels.resistances)])

\* Prices of a ranked row (Null: the snapshot has no price for it) and the
\* response of its candle fetch: a support zone at 98 and a resistance zone at
\* 120 when the series holds their pivots.
AssetPrices == {Null, Num(0), Num(97), Num(100), Num(105), Num(110)}
AssetCandles ==
  {[candles |-> c] :
     c \in SeriesOf({Candle(Num(110), Num(100)), Candle(Num(120), Num(100)),
                     Candle(Num(110), Num(98))}, MaxCandles) \ {<<>>}}

\* The results that the structure stage can store for an asset, each with
\* the mark of a result that was computed from candles.
StructureOutcomes ==
  {[fromCandles |-> price # Null /\ price # Num(0) /\ fetched # FetchFailed,
    res |-> structureOf(price, fetched)] :
     price \in AssetPrices, fetched \in AssetCandles \cup {FetchFailed}}

\* A refresh whose structure stage is computed from prices and candles;
\* probe keeps the ranking and tells which results came from candles.
StructuredRefresh ==
  \E snapshotOk \in BOOLEAN :
    \E ranked \in IF snapshotOk THEN SUBSET Range(COINS) ELSE {{}} :
      \E micro \in [ranked -> {"VALID", "FAILED"}],
         outcome \in [ranked -> StructureOutcomes] :
        /\ refreshRanked(snapshotOk, ranked, micro,
                         [sym \in ranked |-> outcome[sym].res])
        /\ probe' = [fn |-> "refresh", ranked |-> ranked,
                     fromCandles |-> [sym \in ranked |-> outcome[sym].fromCandles]]
        /\ UNCHANGED <<guardVars, focusSymbol, lastOp>>

InitStored == InitProbe({[fn |-> "refresh", ranked |-> {}, fromCandles |-> <<>>]})

NextStored == StructuredRefresh

SpecStored == InitStored /\ [][NextStored]_vars

\* Local minutes of the day given to computeSession (h * 60 + m of a Date).
MinutesOfDay == 0..(24 * 60 - 1)

InitSession == InitProbe({Call("computeSession", <<m>>) : m \in MinutesOfDay})

CallComputeSession ==
  /\ probe # Null
  /\ probe.fn = "computeSession"
  /\ ~probe.done
  /\ probe' = [probe EXCEPT !.done = TRUE,
                            !.result = computeSession(probe.args[1])]
  /\ UNCHANGED <<guardVars, assetVars, lastOp>>

NextSession == CallComputeSession

SpecSession == InitSession /\ [][NextSession]_vars

\* Rows and baseline volumes given to scoreSetup: a 24h change and a 24h
\* volume that are missing, zero, negative, ordinary or so large that the
\* arithmetic leaves the finite range; a baseline volume of any kind.
ScoreChanges ==
  {Null, Num(0), Num(-3), Frac(5, 2), Num(13), Num(-13), Num(1000000), Num(-1000000)}
ScoreVolumes ==
  {Null, Num(0), Num(-10), Num(1), Num(13), Num(1000), Num(1000000)}
BaselineVols ==
  {NaN, Infinity, Negate(Infinity), Num(0), Num(-1), Num(1), Num(10), Frac(1, 10)}

InitScore ==
  InitProbe({Call("scoreSetup", <<[change24h |-> ch, volume24hUsd |-> vol], base>>) :
               ch \in ScoreChanges, vol \in ScoreVolumes, base \in BaselineVols})

CallScoreSetup ==
  /\ probe # Null
  /\ probe.fn = "scoreSetup"
  /\ ~probe.done
  /\ probe' = [probe EXCEPT !.done = TRUE,
                            !.result = scoreSetup(probe.args[1], probe.args[2])]
  /\ UNCHANGED <<guardVars, assetVars, lastOp>>

NextScore == CallScoreSetup

SpecScore == InitScore /\ [][NextScore]_vars

\* Instants given to computeSession for the next change: every minute of the
\* day, at its first and last second, at a full second and beside one.
ClockSeconds == {0, 59}
ClockMillis == {0, 1, 999}
ClockDates ==
  {(m * 60 + s) * 1000 + ms : m \in MinutesOfDay, s \in ClockSeconds, ms \in ClockMillis}

InitCountdown == InitProbe({Call("computeSession", <<date>>) : date \in ClockDates})

\* computeSession on a Date: the window of its minute of the day, the next
\* change and the countdown to it.
CallSessionCountdown ==
  /\ probe # Null
  /\ probe.fn = "computeSession"
  /\ ~probe.done
  /\ LET date == probe.args[1]
     IN  probe' = [probe EXCEPT
                     !.done = TRUE,
                     !.result =
                        computeSession(getMinutesOfDay(date))
                          @@ [nextChangeAt |-> nextChangeAt(date),
                              countdown |-> msToCountdown(nextChangeAt(date) - date)]]
  /\ UNCHANGED <<guardVars, assetVars, lastOp>>

NextCountdown == CallSessionCountdown

SpecCountdown == InitCountdown /\ [][NextCountdown]_vars

\* The two decisions of the guard as one render computes them: global
\* trading-allowed, and action-allowed for the row s of an asset.
guardDecisions(curMinutes, c, locked, override, s) ==
  LET info == computeSession(curMinutes)
      allowed == tradingAllowedOf(commitRequiredOf(c, 1), locked, info.status, override,
                                  sessionAllowedByCommitOf(c, info.session))
  IN  [tradingAllowed |-> allowed,
       coinActionAllowed |-> coinActionAllowedOf(allowed, override, s)]

\* Contracts of today that enable all trading sessions or none, with the
\* off-peak flag either way; rows of an asset that is tradable, without edge,
\* or without structure.
GuardCommits ==
  {[dayKey |-> 1, allowAsia |-> b, allowEurope |-> b, allowUS |-> b,
    allowOverlap |-> b, allowOffPeak |-> offPeak] : b \in BOOLEAN, offPeak \in BOOLEAN}
GuardRows ==
  {[entryQuality |-> "VALID", structureLabel |-> "OK"],
   [entryQuality |-> "NO_EDGE", structureLabel |-> "OK"],
   [entryQuality |-> "VALID", structureLabel |-> "WAIT"]}

InitGuard ==
  InitProbe({Call("guardDecisions", <<m, c, locked, override, s>>) :
               m \in MinutesOfDay, c \in GuardCommits, locked \in BOOLEAN,
               override \in BOOLEAN, s \in GuardRows})

CallGuardDecisions ==
  /\ probe.fn = "guardDecisions"
  /\ ~probe.done
  /\ probe' = [probe EXCEPT
                 !.done = TRUE,
                 !.result = guardDecisions(probe.args[1], probe.args[2], probe.args[3],
                                           probe.args[4], probe.args[5])]
  /\ UNCHANGED <<guardVars, assetVars, lastOp>>

NextGuard == CallGuardDecisions

SpecGuard == InitGuard /\ [][NextGuard]_vars

(***************************************************************************)
(* The intraday (hourly) proxy function.  A string is a sequence of         *)
(* characters; the event carries the id query parameter or none.           *)
(***************************************************************************)
MaxIdLen == 3

\* String.prototype.trim
RECURSIVE trim(_)
trim(str) ==
  IF str = <<>> THEN str
  ELSE IF Head(str) = " " THEN trim(Tail(str))
  ELSE IF str[Len(str)] = " " THEN trim(SubSeq(str, 1, Len(str) - 1))
  ELSE str

\* handler of coingeckoHourly: after the url is built the handler reads res,
\* which no statement declares; the ReferenceError is caught by the handler's
\* catch.  No request is made, so the outcome of the upstream is not read.
handler(event, upstream) ==
  LET id == trim(IF event.has THEN event.id ELSE <<>>)
  IN  IF id = <<>>
        THEN [statusCode |-> 400, body |-> "{error: Missing id}"]
      ELSE [statusCode |-> 500, body |-> "{error: res is not defined}"]

\* Events with no id parameter or an id of up to MaxIdLen characters, and
\* what the upstream provider would answer: a response, or no connection.
HourlyEvents ==
  {[has |-> FALSE, id |-> <<>>]}
    \cup {[has |-> TRUE, id |-> str] :
            str \in UNION {[1..n -> {" ", "a"}] : n \in 0..MaxIdLen}}
HourlyUpstreams ==
  {[status |-> 200, body |-> "{prices: [...]}"],
   [status |-> 404, body |-> "{error: coin not found}"],
   [status |-> 429, body |-> "{status: {error_code: 429}}"],
   FetchFailed}

InitHourly ==
  InitProbe({Call("handler", <<event, upstream>>) :
               event \in HourlyEvents, upstream \in HourlyUpstreams})

CallHandler ==
  /\ probe.fn = "handler"
  /\ ~probe.done
  /\ probe' = [probe EXCEPT !.done = TRUE,
                            !.result = handler(probe.args[1], probe.args[2])]
  /\ UNCHANGED <<guardVars, assetVars, lastOp>>

NextHourly == CallHandler

SpecHourly == InitHourly /\ [][NextHourly]_vars

\* Refreshes from a fresh start: on mount, by the timer, by Refresh now.
InitRefresh == InitProbe({Null})

NextRefresh == ObservedRefresh

SpecRefresh == InitRefresh /\ [][NextRefresh]_vars

\* Refreshes from a fresh start, with the ranking as part of the responses.
InitRanked == InitProbe({Null})

NextRanked == ObservedRankedRefresh

SpecRanked == InitRanked /\ [][NextRanked]_vars

\* Two invocations of the refresh from a fresh start, free to overlap.
InitOverlap ==
  InitProbe({[fn |-> "refresh",
              calls |-> [i \in Invocations |-> [pc |-> "idle", resp |-> <<>>]],
              microOrder |-> <<>>,
              structOrder |-> <<>>]})

NextOverlap ==
  \E i \in Invocations :
    \/ \E resp \in Responses : refreshStart(i, resp)
    \/ refreshMarkets(i)
    \/ refreshMicro(i)
    \/ refreshStruct(i)

SpecOverlap == InitOverlap /\ [][NextOverlap]_vars

\* Two invocations of the refresh whose upstream calls all resolve or reject:
\* an invocation that waits at an await is eventually resumed.  The responses
\* are a failed snapshot, an empty ranking, and a ranking of one symbol with
\* each fetch succeeding or failing.
FinishResponses ==
  {resp \in Responses :
     /\ resp[2] \subseteq {COINS[1]}
     /\ \A sym \in resp[2] : /\ resp[3][sym] \in {"VALID", "FAILED"}
                             /\ resp[4][sym] \in
                                  {st \in ComputedStructures : st.ok} \cup {FetchFailed}}

NextFinish ==
  \E i \in Invocations :
    \/ \E resp \in FinishResponses : refreshStart(i, resp)
    \/ refreshMarkets(i)
    \/ refreshMicro(i)
    \/ refreshStruct(i)

SpecFinish ==
  /\ InitOverlap
  /\ [][NextFinish]_vars
  /\ \A i \in Invocations : /\ WF_vars(refreshMarkets(i))
                            /\ WF_vars(refreshMicro(i))
                            /\ WF_vars(refreshStruct(i))

\* The gates of the assets when the ranking leaves a followed symbol out:
\* the contract, the override and the choice of the focus symbol, with
\* refreshes whose top-N fan-out holds at most the first symbol.
RankedRefresh ==
  \E resp \in FinishResponses :
    /\ refreshRanked(resp[1], resp[2], resp[3], resp[4])
    /\ UNCHANGED <<guardVars, focusSymbol, probe, lastOp>>

NextGate ==
  \/ CommitToday
  \/ SetOverride
  \/ RankedRefresh
  \/ SelectCoin

SpecGate == Init /\ [][NextGate]_vars

(***************************************************************************)
(* Properties of the session guard.                                        *)
(***************************************************************************)
UNCOMMITTED == commitRequired
LOCKED == ~commitRequired /\ dayState.locked
ACTIVE == ~commitRequired /\ ~dayState.locked

\* C1: once the day is locked it stays locked, and trading stays disallowed,
\* in every later state of the day; only reset-day or a change of the
\* calendar day ends the lock.
C1_LockedUntilResetOrRollover ==
  [][dayState.locked =>
       \/ now'.day # now.day
       \/ lastOp' = [op |-> "clearToday"]
       \/ (dayState'.locked /\ ~tradingAllowed')]_vars

\* C1 witness: a lock by the trade cap that has survived a re-commit, with
\* the manual override switched on.
C1_Witness ==
  /\ dayState.locked
  /\ lockedReasonOf(dayState) = "Max trades reached"
  /\ lastOp = [op |-> "recommit"]
  /\ overrideGuard

\* C2: once the trade cap has locked the day, no step makes the trade list
\* longer.
C2_NoAppendAfterTradeCapLock ==
  [][(dayState.locked /\ lockedReasonOf(dayState) = "Max trades reached")
       => Len(dayState'.trades) <= Len(dayState.trades)]_vars

\* The flag of the contract that the claim pairs with each session window.
C3_SessionEnabled ==
  /\ commit # Null
  /\ LET s == sessionInfo.session
     IN  \/ s = "ASIA" /\ commit.allowAsia
         \/ s = "EUROPE" /\ commit.allowEurope
         \/ s = "EUROPE + US OVERLAP" /\ commit.allowOverlap
         \/ s = "US" /\ commit.allowUS
         \/ s = "OFF-PEAK" /\ commit.allowOffPeak

\* C3: trading is allowed exactly when a contract of today exists, the day is
\* not locked, and the override is on or the session is neither WAIT nor
\* outside the contract; the override never allows trading while UNCOMMITTED
\* or LOCKED.
C3_TradingAllowedExactly ==
  /\ tradingAllowed <=>
       /\ commit # Null
       /\ commit.dayKey = todayKey
       /\ ~dayState.locked
       /\ overrideGuard \/ (sessionInfo.status # "WAIT" /\ C3_SessionEnabled)
  /\ (overrideGuard /\ (UNCOMMITTED \/ dayState.locked)) => ~tradingAllowed

\* C3 witness: the override allows trading in the OFF-PEAK (WAIT) window under
\* a contract that does not enable the window.
C3_Witness ==
  /\ tradingAllowed
  /\ overrideGuard
  /\ sessionInfo.status = "WAIT"
  /\ ~commit.allowOffPeak

\* The three limits of a contract, on a trade list.
LimitsMet(c, trades) ==
  \/ Len(trades) >= c.maxTrades
  \/ LessEq(rTodayOf(trades), Negate(MathAbs(c.maxDailyLossR)))
  \/ consecutiveLossesOf(trades) >= c.maxConsecutiveLosses

\* C5: a trade appended while a contract of today exists and the day is
\* unlocked locks the day exactly when one of the three limits is then met;
\* so in every settled state that is committed and unlocked no limit is met.
C5_LockIffLimitMet ==
  /\ [](ACTIVE => ~LimitsMet(commit, dayState.trades))
  /\ [][(/\ lastOp' = [op |-> "addTrade"]
         /\ Len(dayState'.trades) = Len(dayState.trades) + 1
         /\ ~commitRequired
         /\ ~dayState.locked)
          => (dayState'.locked <=> LimitsMet(commit', dayState'.trades))]_vars

\* C5 witness: an appended trade has locked the day by the daily loss limit
\* while the trade cap and the consecutive-loss cap are not met.
C5_Witness ==
  /\ lastOp = [op |-> "addTrade"]
  /\ LOCKED
  /\ lockedReasonOf(dayState) = "Daily loss limit hit"
  /\ Len(dayState.trades) < commit.maxTrades
  /\ consecutiveLosses < commit.maxConsecutiveLosses

\* C6: when the calendar day changes the guard is UNCOMMITTED, the day state
\* is the empty, unlocked state of the new day and the override is off; the
\* contract and the day state in memory always carry the key of today.
C6_RolloverResets ==
  /\ [](/\ dayState.dayKey = todayKey
        /\ commit # Null => commit.dayKey = todayKey)
  /\ [][now'.day # now.day =>
          /\ commit' = Null
          /\ dayState' = freshDayState(now'.day)
          /\ ~overrideGuard']_vars

\* C6 witness: after a rollover, with the contract of the previous day still
\* in localStorage.
C6_Witness ==
  /\ lastOp = [op |-> "rollover"]
  /\ lsCommit # Null
  /\ lsCommit.dayKey # todayKey
  /\ UNCOMMITTED
  /\ dayState = freshDayState(todayKey)

\* C7: reset-day leaves an empty, unlocked day state of today and the guard
\* ACTIVE under an unchanged contract (UNCOMMITTED without one); it does not
\* lock again at once, the caps of a contract being at least 1, 0.5R and 1.
C7_ResetDay ==
  /\ [](lastOp = [op |-> "clearToday"] =>
          /\ dayState = freshDayState(todayKey)
          /\ lockedReasonOf(dayState) = Null
          /\ IF commit # Null THEN ACTIVE ELSE UNCOMMITTED)
  /\ [](commit # Null =>
          /\ commit.maxTrades >= 1
          /\ LessEq(Frac(1, 2), commit.maxDailyLossR)
          /\ commit.maxConsecutiveLosses >= 1)
  /\ [][lastOp' = [op |-> "clearToday"] =>
          (commit' = commit /\ lsCommit' = lsCommit)]_vars

\* C7 witness: reset-day has acted under a contract whose trade cap is 1.
C7_Witness ==
  /\ lastOp = [op |-> "clearToday"]
  /\ ACTIVE
  /\ commit.maxTrades = 1
  /\ commit.maxConsecutiveLosses = 1

\* C8 as stated: after commit-today the guard is ACTIVE.
C8_CommitMakesActive ==
  lastOp = [op |-> "commitToday"] => ACTIVE

\* C8 as amended: commit-today executed while UNCOMMITTED leaves a contract of
\* today and the trade list as it was; the day is then locked exactly when it
\* was locked before or a limit of the new contract is already met by the
\* trades of today, and ACTIVE otherwise.
C8_CommitActiveUnlessLimitMet ==
  [][(lastOp' = [op |-> "commitToday"] /\ commitRequired) =>
       /\ ~commitRequired'
       /\ dayState'.trades = dayState.trades
       /\ dayState'.locked <=>
            (dayState.locked \/ LimitsMet(commit', dayState.trades))]_vars

\* C8 witness: a commit after a re-commit, with a trade of today already in
\* the ledger, leaves the guard ACTIVE.
C8_Witness ==
  /\ lastOp = [op |-> "commitToday"]
  /\ ACTIVE
  /\ Len(dayState.trades) > 0

\* The risk of a trade for its side.
RiskPositive(t) ==
  IF t.side = "LONG" THEN Less(t.stop, t.entry) ELSE Less(t.entry, t.stop)

\* C9: a log-trade with an invalid R leaves the day state as it is, and every
\* trade of the ledger has finite prices, a positive risk and a finite R.
C9_InvalidTradeRejected ==
  /\ [](\A i \in 1..Len(dayState.trades) :
          LET t == dayState.trades[i]
          IN  /\ isFinite(t.entry) /\ isFinite(t.stop) /\ isFinite(t.exit)
              /\ RiskPositive(t)
              /\ isFinite(t.r))
  /\ [][lastOp' = [op |-> "addTradeRejected"] =>
          (dayState' = dayState /\ lsDayState' = lsDayState)]_vars

\* C9 witness: a log-trade has been rejected with a trade already in the
\* ledger.
C9_Witness ==
  /\ lastOp = [op |-> "addTradeRejected"]
  /\ Len(dayState.trades) = 1
  /\ logOpen

(***************************************************************************)
(* Properties of the per-asset gate.                                       *)
(***************************************************************************)
\* C4: a row is action-allowed exactly when trading is allowed and the
\* override is on or the row's entry quality is not NO_EDGE and its structure
\* label is OK.
C4_ActionAllowedExactly ==
  \A s \in setups :
    /\ coinActionAllowed(s) <=>
         /\ tradingAllowed
         /\ overrideGuard \/ (s.entryQuality # "NO_EDGE" /\ s.structureLabel = "OK")
    /\ ~tradingAllowed => ~coinActionAllowed(s)

\* C4 witness: with the override off, an EXTENDED row with structure OK is
\* allowed beside a VALID row with structure NO_EDGE that is not.
C4_Witness ==
  /\ ~overrideGuard
  /\ \E s \in setups :
       s.entryQuality = "EXTENDED" /\ s.structureLabel = "OK" /\ coinActionAllowed(s)
  /\ \E s \in setups :
       s.entryQuality = "VALID" /\ s.structureLabel = "NO_EDGE" /\ ~coinActionAllowed(s)

(***************************************************************************)
(* Properties of the R multiple.                                           *)
(***************************************************************************)
\* r = num / den, for fractions num and den with den # 0.
IsQuotient(r, num, den) ==
  isFinite(r) /\ r.n * (num.d * den.n) = r.d * (num.n * den.d)

\* C10: for finite inputs the R of a LONG with entry > stop is
\* (exit - entry)/(entry - stop), the R of a SHORT with stop > entry is
\* (entry - exit)/(stop - entry), and the result is invalid when the risk of
\* the side is not positive; the four documented examples hold.
C10_ComputeR ==
  (probe # Null /\ probe.fn = "computeR" /\ probe.done) =>
    LET side == probe.args[1]
        entry == probe.args[2]
        stop == probe.args[3]
        exit == probe.args[4]
        r == probe.result
        diff(a, b) == [n |-> a.n * b.d - b.n * a.d, d |-> a.d * b.d]
    IN  /\ (isFinite(entry) /\ isFinite(stop) /\ isFinite(exit)) =>
             /\ (side = "LONG" /\ Less(stop, entry)) =>
                  IsQuotient(r, diff(exit, entry), diff(entry, stop))
             /\ (side = "SHORT" /\ Less(entry, stop)) =>
                  IsQuotient(r, diff(entry, exit), diff(stop, entry))
             /\ (side = "LONG" /\ ~Less(stop, entry)) => r = NaN
             /\ (side = "SHORT" /\ ~Less(entry, stop)) => r = NaN
        /\ probe.args = <<"LONG", Num(100), Num(95), Num(110)>> => r = Num(2)
        /\ probe.args = <<"LONG", Num(100), Num(95), Num(90)>> => r = Num(-2)
        /\ probe.args = <<"SHORT", Num(100), Num(105), Num(90)>> => r = Num(2)
        /\ probe.args = <<"LONG", Num(100), Num(100), Num(110)>> => r = NaN

\* C10 witness: the SHORT example has been computed.
C10_Witness ==
  /\ probe # Null
  /\ probe.done
  /\ probe.args = <<"SHORT", Num(100), Num(105), Num(90)>>
  /\ probe.result = Num(2)

(***************************************************************************)
(* Properties of the persisted records.                                    *)
(***************************************************************************)
\* C11: a reload on the same calendar day gives the contract and the day
\* state (trades, locked, lockedReason) that were in memory before it, so an
\* ACTIVE or LOCKED guard survives the reload; after a re-commit nothing is
\* persisted as contract and a reload is UNCOMMITTED.
C11_ReloadRestores ==
  /\ [](/\ loadCommit(lsCommit, todayKey) = commit
        /\ loadDayState(lsDayState, todayKey) = dayState)
  /\ [](lastOp = [op |-> "recommit"] => (lsCommit = Null /\ UNCOMMITTED))
  /\ [][(lastOp' = [op |-> "reload"] /\ now'.day = now.day) =>
          /\ commit' = commit
          /\ dayState' = dayState
          /\ lockedReasonOf(dayState') = lockedReasonOf(dayState)
          /\ (ACTIVE <=> ACTIVE') /\ (LOCKED <=> LOCKED')
          /\ (UNCOMMITTED <=> UNCOMMITTED')]_vars

\* C11 witness: a reload has restored a day locked by the loss limit, with
\* its trade and its contract.
C11_Witness ==
  /\ lastOp = [op |-> "reload"]
  /\ LOCKED
  /\ lockedReasonOf(dayState) = "Daily loss limit hit"
  /\ Len(dayState.trades) > 0

\* C12: while a contract of today exists, a step leaves it and its persisted
\* copy as they are, unless the step is a re-commit, which discards it and
\* leaves the guard UNCOMMITTED, or the calendar day changes, which drops it;
\* a contract appears only by commit-today from UNCOMMITTED.
C12_ContractImmutable ==
  /\ [][~commitRequired =>
          \/ commit' = commit /\ lsCommit' = lsCommit
          \/ /\ lastOp' = [op |-> "recommit"]
             /\ commit' = Null
             /\ UNCOMMITTED'
          \/ /\ now'.day # now.day
             /\ commit' = Null]_vars
  /\ [][(commit' # commit /\ commit' # Null) =>
          (commitRequired /\ lastOp' = [op |-> "commitToday"])]_vars

\* C12 witness: the contract is in force after a trade, a manual end of the
\* session under override, and a later clock window.
C12_Witness ==
  /\ ~commitRequired
  /\ lastOp = [op |-> "endSession"]
  /\ overrideGuard
  /\ Len(dayState.trades) > 0
  /\ now.min = B_OVERLAP

\* C13: a step leaves the trade list as it is, appends exactly one record at
\* its end (log-trade), or replaces it by the empty list (reset-day or a
\* change of the calendar day); no record is changed, removed or moved.
C13_TradesAppendOnly ==
  [][\/ dayState'.trades = dayState.trades
     \/ /\ lastOp' = [op |-> "addTrade"]
        /\ Len(dayState'.trades) = Len(dayState.trades) + 1
        /\ SubSeq(dayState'.trades, 1, Len(dayState.trades)) = dayState.trades
     \/ /\ dayState'.trades = <<>>
        /\ lastOp' = [op |-> "clearToday"] \/ now'.day # now.day]_vars

\* C13 witness: a second, different trade has been appended behind the first
\* and has locked the day.
C13_Witness ==
  /\ lastOp = [op |-> "addTrade"]
  /\ Len(dayState.trades) = 2
  /\ dayState.trades[1] # dayState.trades[2]
  /\ dayState.locked

(***************************************************************************)
(* Properties of the entry quality.                                        *)
(***************************************************************************)
\* x = ((last - base) / base) * 100, for integers last and base > 0.
IsPct(x, last, base) ==
  isFinite(x) /\ x.n * base = x.d * ((last - base) * 100)

\* C14: on a series of positive prices computeMicro gives NO_EDGE iff
\* ret1h <= -3, otherwise EXTENDED iff dropFromHigh6h <= -4 or
\* spikeFromLow6h >= 6, otherwise VALID, the percentages being taken from the
\* previous price and from the high and the low of the last seven prices; a
\* one-step drop of 3% or more gives NO_EDGE, a series that never falls and
\* ends 6% or more above its 6h low gives EXTENDED; a result other than VALID
\* carries two reasons and VALID none.
C14_ComputeMicro ==
  (probe # Null /\ probe.fn = "computeMicro" /\ probe.done
     /\ Len(probe.args[1]) > 0) =>
    LET prices == probe.args[1]
        n == Len(prices)
        r == probe.result
        last == prices[n].n
        prev == IF n >= 2 THEN prices[n - 1].n ELSE last
        window == {prices[i].n : i \in {j \in 1..n : j > n - 7}}
        high == CHOOSE x \in window : \A y \in window : y <= x
        low == CHOOSE x \in window : \A y \in window : x <= y
        dump == r.ret1h.n <= (-3) * r.ret1h.d
        pullback == r.dropFromHigh6h.n <= (-4) * r.dropFromHigh6h.d
        spike == r.spikeFromLow6h.n >= 6 * r.spikeFromLow6h.d
        rising == \A i \in 1..(n - 1) : i > n - 7 => prices[i].n <= prices[i + 1].n
    IN  /\ IsPct(r.ret1h, last, prev)
        /\ IsPct(r.dropFromHigh6h, last, high)
        /\ IsPct(r.spikeFromLow6h, last, low)
        /\ r.entryQuality = "NO_EDGE" <=> dump
        /\ r.entryQuality = "EXTENDED" <=> (~dump /\ (pullback \/ spike))
        /\ r.entryQuality = "VALID" <=> (~dump /\ ~pullback /\ ~spike)
        /\ (prev - last) * 100 >= 3 * prev => r.entryQuality = "NO_EDGE"
        /\ (rising /\ (last - low) * 100 >= 6 * low) => r.entryQuality = "EXTENDED"
        /\ Len(r.whyNot) = IF r.entryQuality = "VALID" THEN 0 ELSE 2

\* C14 witness: a 6% one-step drop after a rise of more than 6% from the low
\* of the window is NO_EDGE although the pullback and the spike rules match.
C14_Witness ==
  /\ probe # Null
  /\ probe.fn = "computeMicro"
  /\ probe.done
  /\ probe.args[1] = <<Num(94), Num(106), Num(100)>>
  /\ probe.result.entryQuality = "NO_EDGE"
  /\ probe.result.dropFromHigh6h.n <= (-4) * probe.result.dropFromHigh6h.d
  /\ probe.result.spikeFromLow6h.n >= 6 * probe.result.spikeFromLow6h.d

(***************************************************************************)
(* Properties of the structure result.                                     *)
(***************************************************************************)
\* Twice a price, as an integer (the prices of the calls are halves).
Twice(a) == (2 * a.n) \div a.d

\* The supports below the price, the resistances above it within 15% of it,
\* and those of them that leave at least twice the risk, for a finished call.
C15_Below ==
  {z \in probe.args[2].supports : Twice(z.price) < Twice(probe.args[1])}
C15_Nearest == CHOOSE z \in C15_Below : \A y \in C15_Below : Twice(y.price) <= Twice(z.price)
C15_InReach ==
  {z \in probe.args[2].resistances :
     /\ Twice(probe.args[1]) < Twice(z.price)
     /\ 100 * Twice(z.price) <= 115 * Twice(probe.args[1])}
C15_Qualifying ==
  {z \in C15_InReach :
     Twice(z.price) - Twice(probe.args[1])
       >= 2 * (Twice(probe.args[1]) - Twice(C15_Nearest.price))}
C15_Done ==
  probe # Null /\ probe.fn = "evaluateStructure" /\ probe.done

\* room = (resistance - price) / (price - support)
C15_IsRoom(room, resistance, support) ==
  /\ room # Null
  /\ isFinite(room)
  /\ room.n * (Twice(probe.args[1]) - Twice(support))
       = room.d * (Twice(resistance) - Twice(probe.args[1]))

\* C15: evaluateStructure gives OK (ok = true) iff a support lies strictly
\* below the price and a resistance r with price < r <= 1.15 * price has
\* r - price >= 2 * (price - nearest support below); then the support is the
\* highest zone below the price, the resistance the nearest qualifying zone,
\* roomTo2R >= 2, and a zone with fewer than 2 touches only adds a warning.
C15_StructureOK ==
  C15_Done =>
    LET r == probe.result
        qualifies == C15_Below # {} /\ C15_Qualifying # {}
    IN  /\ r.ok <=> r.label = "OK"
        /\ r.ok <=> qualifies
        /\ r.ok =>
             LET target == CHOOSE z \in C15_Qualifying :
                             \A y \in C15_Qualifying : Twice(z.price) <= Twice(y.price)
             IN  /\ r.support = C15_Nearest.price
                 /\ r.resistance = target.price
                 /\ C15_IsRoom(r.roomTo2R, r.resistance, r.support)
                 /\ r.roomTo2R.n >= 2 * r.roomTo2R.d
                 /\ r.reasons =
                      IF C15_Nearest.strength < 2 \/ target.strength < 2
                        THEN <<"Levels are weak">> ELSE <<>>

\* C15 witness: support 100, price 100.5, a nearer resistance at 102 touched
\* once and one at 106: OK with the target 102, room 3 and the warning.
C15_Witness ==
  /\ C15_Done
  /\ probe.args[1] = Frac(201, 2)
  /\ probe.args[2].supports = {[price |-> Num(100), strength |-> 2]}
  /\ probe.args[2].resistances =
       {[price |-> Num(102), strength |-> 1], [price |-> Num(106), strength |-> 2]}
  /\ probe.result.ok
  /\ probe.result.roomTo2R = Num(3)
  /\ probe.result.reasons = <<"Levels are weak">>

\* C16: a result other than OK is WAIT when no support lies below the price,
\* or when one does but no resistance lies above the price within 15% of it;
\* it is NO_EDGE, with the support, the nearest resistance within 15% and a
\* roomTo2R < 2 computed from it, when such resistances exist and none leaves
\* twice the risk.
C16_StructureNotOK ==
  C15_Done =>
    LET r == probe.result
    IN  /\ r.label = "WAIT" <=> (C15_Below = {} \/ C15_InReach = {})
        /\ r.label = "NO_EDGE" <=>
             (C15_Below # {} /\ C15_InReach # {} /\ C15_Qualifying = {})
        /\ r.label # "OK" => ~r.ok
        /\ (r.label = "WAIT" /\ C15_Below = {}) =>
             (r.support = Null /\ r.resistance = Null /\ r.roomTo2R = Null)
        /\ (r.label = "WAIT" /\ C15_Below # {}) =>
             (r.support = C15_Nearest.price /\ r.resistance = Null
                /\ r.roomTo2R = Null)
        /\ r.label = "NO_EDGE" =>
             LET nearest == CHOOSE z \in C15_InReach :
                              \A y \in C15_InReach : Twice(z.price) <= Twice(y.price)
             IN  /\ r.support = C15_Nearest.price
                 /\ r.resistance = nearest.price
                 /\ C15_IsRoom(r.roomTo2R, r.resistance, r.support)
                 /\ r.roomTo2R.n < 2 * r.roomTo2R.d

\* C16 witness: price 104 over supports 100 and 102, resistance 106 within
\* reach and 120 beyond it: NO_EDGE with room 1 from 106.
C16_Witness ==
  /\ C15_Done
  /\ probe.args[1] = Num(104)
  /\ {z.price : z \in probe.args[2].supports} = {Num(100), Num(102)}
  /\ {z.price : z \in probe.args[2].resistances} = {Num(106), Num(120)}
  /\ probe.result.label = "NO_EDGE"
  /\ probe.result.resistance = Num(106)
  /\ probe.result.roomTo2R = Num(1)

(***************************************************************************)
(* Properties of the session clock.                                        *)
(***************************************************************************)
\* C17: for every local minute m of the day computeSession gives ASIA and
\* SELECTIVE for 420 <= m < 960, EUROPE and TRADE for 960 <= m < 1260,
\* EUROPE + US OVERLAP and TRADE for m >= 1260 or m < 60, US and TRADE for
\* 60 <= m < 360, OFF-PEAK and WAIT for 360 <= m < 420; the quality is WAIT
\* iff the session is OFF-PEAK, and the residual branch is never taken.
C17_SessionWindows ==
  (probe # Null /\ probe.fn = "computeSession" /\ probe.done) =>
    LET m == probe.args[1]
        r == probe.result
        window == [session |-> r.session, status |-> r.status]
    IN  /\ m \in 0..1439
        /\ (420 <= m /\ m < 960) <=>
             window = [session |-> "ASIA", status |-> "SELECTIVE"]
        /\ (960 <= m /\ m < 1260) <=>
             window = [session |-> "EUROPE", status |-> "TRADE"]
        /\ (m >= 1260 \/ m < 60) <=>
             window = [session |-> "EUROPE + US OVERLAP", status |-> "TRADE"]
        /\ (60 <= m /\ m < 360) <=>
             window = [session |-> "US", status |-> "TRADE"]
        /\ (360 <= m /\ m < 420) <=>
             window = [session |-> "OFF-PEAK", status |-> "WAIT"]
        /\ r.status = "WAIT" <=> r.session = "OFF-PEAK"
        /\ r.note # "Low quality window."

\* C17 witness: the last minute before 01:00 is in the overlap window.
C17_Witness ==
  /\ probe # Null
  /\ probe.fn = "computeSession"
  /\ probe.done
  /\ probe.args[1] = 59
  /\ probe.result.session = "EUROPE + US OVERLAP"

(***************************************************************************)
(* Properties of the refresh.                                              *)
(***************************************************************************)
\* The stored value of a symbol in a map, Null when the map has none.
Stored(map, sym) == IF sym \in DOMAIN map THEN map[sym] ELSE Null

\* C18: in a refresh whose snapshot succeeds, every ranked asset whose hourly
\* fetch succeeds gets its new classification stored in microMap, and every
\* asset whose hourly fetch fails keeps the classification stored before.
C18_MicroFailureIsolated ==
  [][LET snapshotOk == probe'.args[1]
         micro == probe'.args[2]
     IN  snapshotOk =>
           \A sym \in Range(COINS) :
             IF micro[sym] = "FAILED"
               THEN Stored(microMap', sym) = Stored(microMap, sym)
               ELSE Stored(microMap', sym) = [entryQuality |-> micro[sym]]]_vars

\* C19: in a refresh whose snapshot succeeds, an asset whose candle fetch
\* fails (or gives no candles, or has no price) gets the MISSING fallback with
\* label WAIT in place of any earlier result, every other ranked asset gets
\* its newly computed result, and this holds whether or not an hourly fetch
\* of the same refresh failed.
C19_StructureFailureIsolated ==
  [][LET snapshotOk == probe'.args[1]
         struct == probe'.args[3]
     IN  snapshotOk =>
           \A sym \in Range(COINS) :
             IF struct[sym] = FetchFailed
               THEN Stored(structMap', sym) =
                      [ok |-> FALSE, label |-> "WAIT", source |-> "MISSING"]
               ELSE Stored(structMap', sym) = struct[sym]]_vars

\* C19 witness: the hourly stage has failed, the candle fetch of BTC has
\* failed and replaced an earlier result by the fallback, and SOL holds a
\* computed result.
C19_Witness ==
  /\ probe # Null
  /\ probe.args[1]
  /\ probe.args[2]["SOL"] = "FAILED"
  /\ probe.args[3]["BTC"] = FetchFailed
  /\ Stored(structMap, "BTC") = MissingStructure
  /\ Stored(structMap, "SOL") # Null
  /\ Stored(structMap, "SOL").label = "OK"
  /\ microMap = <<>>

\* C20: a refresh leaves the error set iff its snapshot fetch fails, and then
\* leaves the market snapshot, microMap and structMap as they were; failing
\* hourly or candle fetches alone leave the error clear.
C20_ErrorIffSnapshotFails ==
  [][LET snapshotOk == probe'.args[1]
     IN  /\ error' # Null <=> ~snapshotOk
         /\ ~snapshotOk =>
              (market' = market /\ microMap' = microMap /\ structMap' = structMap)]_vars

\* C20 witness: the snapshot fetch has failed; the error is set and the
\* snapshot and the maps of an earlier refresh, in which an hourly fetch had
\* failed, are kept.
C20_Witness ==
  /\ probe # Null
  /\ ~probe.args[1]
  /\ error # Null
  /\ market = COINS
  /\ microMap = <<>>
  /\ Stored(structMap, "BTC") # Null

\* C21: a refresh that receives the same responses as the refresh before it
\* leaves the market snapshot, microMap and structMap as that refresh left
\* them.
C21_RefreshIdempotent ==
  [][probe'.repeated =>
       (market' = market /\ microMap' = microMap /\ structMap' = structMap)]_vars

\* C21 witness: a refresh has been repeated with a successful snapshot, one
\* ranked symbol, a new classification and a failed candle fetch, over an
\* entry of the other symbol.
C21_Witness ==
  /\ probe # Null
  /\ probe.repeated
  /\ probe.args[1]
  /\ probe.args[2] = {"BTC"}
  /\ probe.args[3]["BTC"] = "NO_EDGE"
  /\ Stored(microMap, "BTC") = [entryQuality |-> "NO_EDGE"]
  /\ Stored(structMap, "BTC") = MissingStructure
  /\ Stored(microMap, "SOL") # Null

\* C23: a refresh changes the entries of microMap and structMap only for the
\* symbols of its own ranking, which holds at most 10 symbols; the entry of
\* every other symbol, present or absent, stays as it was.
C23_OnlyRankedEntriesChange ==
  [][/\ Cardinality(probe'.args[2]) <= 10
     /\ \A sym \in Range(COINS) \ probe'.args[2] :
          /\ Stored(microMap', sym) = Stored(microMap, sym)
          /\ Stored(structMap', sym) = Stored(structMap, sym)]_vars

\* C23 witness: a refresh that ranked only BTC has written the entries of BTC
\* and has left those of SOL, written by an earlier refresh.
C23_Witness ==
  /\ probe # Null
  /\ probe.args[1]
  /\ probe.args[2] = {"BTC"}
  /\ ~probe.repeated
  /\ Stored(microMap, "BTC") = [entryQuality |-> "VALID"]
  /\ Stored(microMap, "SOL") = [entryQuality |-> "NO_EDGE"]
  /\ Stored(structMap, "SOL") # Null
  /\ Stored(structMap, "SOL").label = "OK"
  /\ Stored(structMap, "BTC") = MissingStructure

\* The map left by the merges of the invocations in order: for each symbol
\* the entry of the last invocation in the order that wrote the symbol.
C22_Final(order, written) ==
  [sym \in UNION {DOMAIN written[order[k]] : k \in 1..Len(order)} |->
     LET last == CHOOSE k \in 1..Len(order) :
                   /\ sym \in DOMAIN written[order[k]]
                   /\ \A j \in (k + 1)..Len(order) : sym \notin DOMAIN written[order[j]]
     IN  written[order[last]][sym]]

C22_InOrder(i, order) == \E k \in 1..Len(order) : order[k] = i

\* C22: when invocations of the refresh overlap, every invocation whose
\* snapshot arrived merges its results into microMap and structMap (none is
\* cancelled), and each map holds for every symbol the entry of the
\* invocation whose merge of that map ran last among those that wrote the
\* symbol; entries written by one invocation only are kept.
C22_OverlapLastWriteWins ==
  LET microWritten == [i \in Invocations |->
                         IF probe.calls[i].pc = "idle" THEN <<>>
                         ELSE nextMicroOf(probe.calls[i].resp)]
      structWritten == [i \in Invocations |->
                          IF probe.calls[i].pc = "idle" THEN <<>>
                          ELSE nextStructOf(probe.calls[i].resp)]
  IN  /\ microMap = C22_Final(probe.microOrder, microWritten)
      /\ structMap = C22_Final(probe.structOrder, structWritten)
      /\ \A i \in Invocations :
           (probe.calls[i].pc = "done" /\ probe.calls[i].resp[1]) =>
             /\ C22_InOrder(i, probe.microOrder)
             /\ C22_InOrder(i, probe.structOrder)

\* C22 witness: two invocations have overlapped and finished; the first
\* merged its classifications first and its structure results last.  BTC,
\* written by both, holds the classification of the second and the structure
\* result of the first; SOL, written by the first only, is kept.
C22_Witness ==
  /\ probe.calls[1].pc = "done"
  /\ probe.calls[2].pc = "done"
  /\ probe.microOrder = <<1, 2>>
  /\ probe.structOrder = <<2, 1>>
  /\ probe.calls[1].resp[1]
  /\ probe.calls[2].resp[1]
  /\ probe.calls[1].resp[2] = {"BTC", "SOL"}
  /\ probe.calls[2].resp[2] = {"BTC"}
  /\ probe.calls[1].resp[3]["BTC"] = "VALID"
  /\ probe.calls[2].resp[3]["BTC"] = "NO_EDGE"
  /\ probe.calls[1].resp[3]["SOL"] = "VALID"
  /\ probe.calls[1].resp[4]["BTC"] # FetchFailed
  /\ probe.calls[2].resp[4]["BTC"] = FetchFailed
  /\ Stored(microMap, "BTC") = [entryQuality |-> "NO_EDGE"]
  /\ Stored(microMap, "SOL") = [entryQuality |-> "VALID"]
  /\ Stored(structMap, "BTC") = probe.calls[1].resp[4]["BTC"]
  /\ Stored(structMap, "SOL") # Null

C24_InRange(x) == LessEq(Num(0), x) /\ LessEq(x, Num(100))

\* C24: for every finite or missing 24h change and 24h volume and every
\* baseline volume, the three scores of scoreSetup are numbers from 0 to 100.
C24_ScoresInRange ==
  (probe # Null /\ probe.fn = "scoreSetup" /\ probe.done) =>
    /\ C24_InRange(probe.result.score15m)
    /\ C24_InRange(probe.result.score1h)
    /\ C24_InRange(probe.result.combinedScore)

\* C24 witness: a row whose change is so negative that the product leaves
\* the finite range and whose volume ratio does so as well has been scored:
\* the change score is 0, the volume score 100, the combined score between.
C24_Witness ==
  /\ probe # Null
  /\ probe.fn = "scoreSetup"
  /\ probe.done
  /\ probe.args[1].change24h = Num(-1000000)
  /\ probe.args[1].volume24hUsd = Num(1000000)
  /\ probe.args[2] = Frac(1, 10)
  /\ probe.result.volFactor = Infinity
  /\ probe.result.score1h = Num(35)
  /\ probe.result.score15m = Num(49)
  /\ Less(Num(0), probe.result.combinedScore)
  /\ Less(probe.result.combinedScore, Num(100))

\* The sum of the R multiples of a trade list, taken from the first trade on.
RECURSIVE C25_Sum(_)
C25_Sum(trades) ==
  IF Len(trades) = 0 THEN Num(0) ELSE Plus(trades[1].r, C25_Sum(Tail(trades)))

\* The length of the longest suffix of a trade list that holds only losses.
C25_LosingSuffix(trades) ==
  CHOOSE k \in 0..Len(trades) :
    /\ \A i \in (Len(trades) - k + 1)..Len(trades) : Less(trades[i].r, Num(0))
    /\ k < Len(trades) => ~Less(trades[Len(trades) - k].r, Num(0))

\* C25: in every state the cumulative R is the sum of the R multiples of the
\* trades of the day and the loss streak is the length of the longest suffix
\* of losing trades; after a day reset or a rollover both are 0.
C25_MetricsDerivedFromTrades ==
  /\ [](/\ rToday = C25_Sum(dayState.trades)
        /\ consecutiveLosses = C25_LosingSuffix(dayState.trades))
  /\ [][(lastOp' = [op |-> "clearToday"] \/ now'.day # now.day) =>
          (rToday' = Num(0) /\ consecutiveLosses' = 0)]_vars

\* C25 witness: a loss followed by a 0R trade: the streak is back to 0 while
\* the cumulative R keeps the loss.
C25_Witness ==
  /\ Len(dayState.trades) = 2
  /\ dayState.trades[1].r = Num(-1)
  /\ dayState.trades[2].r = Num(0)
  /\ consecutiveLosses = 0
  /\ rToday = Num(-1)

\* A divisor of the classifier that is zero or not finite.
C26_BadDivisor(x) == ~isFinite(x) \/ x = Num(0)

\* C26: on an empty series, or when the 1h-ago price, the 6h high or the 6h
\* low is zero or not finite, the percentage taken from that divisor matches
\* no rule, and the result is VALID when no other percentage matches a rule;
\* a series of one sample gives VALID with all percentages 0.
C26_BadDivisorMatchesNoRule ==
  (probe # Null /\ probe.fn = "computeMicro" /\ probe.done) =>
    LET prices == probe.args[1]
        n == Len(prices)
        r == probe.result
        p1h == At(prices, IntMax(0, n - 2))
        window6h == SubSeq(prices, IntMax(0, n - 7) + 1, n)
        dump == LessEq(r.ret1h, Num(-3))
        pullback == LessEq(r.dropFromHigh6h, Num(-4))
        spike == LessEq(Num(6), r.spikeFromLow6h)
    IN  /\ n = 0 => r.entryQuality = "VALID"
        /\ C26_BadDivisor(p1h) => ~dump
        /\ C26_BadDivisor(SeqMax(window6h)) => ~pullback
        /\ C26_BadDivisor(SeqMin(window6h)) => ~spike
        /\ (~dump /\ ~pullback /\ ~spike) => r.entryQuality = "VALID"
        /\ (n = 1 /\ prices[1] # Num(0)) =>
             /\ r.entryQuality = "VALID"
             /\ r.ret1h = Num(0)
             /\ r.ret4h = Num(0)
             /\ r.dropFromHigh6h = Num(0)
             /\ r.spikeFromLow6h = Num(0)

(***************************************************************************)
(* Properties of the pivot levels.                                         *)
(***************************************************************************)
C27_Done ==
  probe # Null /\ probe.fn = "computePivotLevels1h" /\ probe.done

\* The JavaScript indices 2 .. n-3 whose high is above, or whose low is
\* below, that of both neighbours.
C27_HighPivots(candles) ==
  {i \in 2..(Len(candles) - 3) :
     /\ Less(candles[i].h, candles[i + 1].h)
     /\ Less(candles[i + 2].h, candles[i + 1].h)}
C27_LowPivots(candles) ==
  {i \in 2..(Len(candles) - 3) :
     /\ Less(candles[i + 1].l, candles[i].l)
     /\ Less(candles[i + 1].l, candles[i + 2].l)}

RECURSIVE C27_Strengths(_)
C27_Strengths(zones) ==
  IF zones = <<>> THEN 0 ELSE zones[1].strength + C27_Strengths(Tail(zones))

\* C27: the pivots of computePivotLevels1h are the candles of the indices
\* 2 .. n-3 whose high is strictly above both neighbours' highs (resistance)
\* or whose low is strictly below both neighbours' lows (support): the zones
\* are those of these pivots and count each of them once.  Fewer than five
\* candles give no zone, and the structure label is then WAIT.
C27_PivotsOfInteriorCandles ==
  C27_Done =>
    LET candles == probe.args[1]
        levels == probe.result.levels
    IN  /\ {z.price : z \in Range(levels.resistances)}
             = {zone(candles[i + 1].h) : i \in C27_HighPivots(candles)}
        /\ {z.price : z \in Range(levels.supports)}
             = {zone(candles[i + 1].l) : i \in C27_LowPivots(candles)}
        /\ C27_Strengths(levels.resistances) = Cardinality(C27_HighPivots(candles))
        /\ C27_Strengths(levels.supports) = Cardinality(C27_LowPivots(candles))
        /\ Len(candles) < 5 =>
             /\ levels.supports = <<>>
             /\ levels.resistances = <<>>
             /\ probe.result.res.label = "WAIT"

\* C27 witness: seven candles: the highs of the indices 2 and 3 are equal,
\* so neither is a pivot although each is above its other neighbour; the
\* index 4 holds a high above and a low below both neighbours and is the
\* only pivot of each side.
C27_Witness ==
  /\ C27_Done
  /\ probe.args[1] = <<Candle(Num(2000), Num(1500)), Candle(Num(2000), Num(1500)),
                       Candle(Num(2012), Num(1500)), Candle(Num(2012), Num(1500)),
                       Candle(Num(2014), Num(1495)), Candle(Num(2000), Num(1500)),
                       Candle(Num(2000), Num(1500))>>
  /\ probe.result.levels.resistances = <<[price |-> Num(2010), strength |-> 1]>>
  /\ probe.result.levels.supports = <<[price |-> Num(1500), strength |-> 1]>>

\* The grid of the zones for a price.
C30_Step(x) ==
  IF LessEq(Num(1000), x) THEN Num(10)
  ELSE IF LessEq(Num(100), x) THEN Num(1)
  ELSE IF LessEq(Num(1), x) THEN Frac(1, 100)
  ELSE Frac(1, 1000000)

\* z is a point of the grid of x and no point of the grid is nearer to x.
C30_IsNearest(z, x) ==
  /\ Over(z, C30_Step(x)).d = 1
  /\ LessEq(MathAbs(Minus(z, x)), Times(C30_Step(x), Frac(1, 2)))

\* The zones of one side for its pivots: every pivot has its zone on the
\* grid nearest to it, the entries have different prices, the strength of an
\* entry is the number of pivots of its zone, and every pivot is counted.
C30_ZonesOf(zones, pivots) ==
  /\ \A k \in 1..Len(pivots) : C30_IsNearest(zone(pivots[k]), pivots[k])
  /\ \A i, j \in 1..Len(zones) : zones[i].price = zones[j].price => i = j
  /\ {z.price : z \in Range(zones)} = {zone(pivots[k]) : k \in 1..Len(pivots)}
  /\ \A i \in 1..Len(zones) :
       zones[i].strength
         = Cardinality({k \in 1..Len(pivots) : zone(pivots[k]) = zones[i].price})
  /\ C27_Strengths(zones) = Len(pivots)

\* C30: computePivotLevels1h maps every pivot price to the nearest point of
\* its grid (10 from 1000 on, 1 from 100 on, 0.01 from 1 on, 0.000001 below)
\* and returns one entry per zone whose strength is the number of pivots of
\* the zone, so that the strengths of a side sum to its number of pivots.
C30_ZonesCountPivots ==
  C27_Done =>
    /\ C30_ZonesOf(probe.result.levels.resistances, resistancePivots(probe.args[1]))
    /\ C30_ZonesOf(probe.result.levels.supports, supportPivots(probe.args[1]))

\* C30 witness: the highs 2012 and 2014 of two pivots fall into the zone
\* 2010, which has the strength 2; the low 1495 of the second pivot lies
\* between two zones and is counted in the upper one.
C30_Witness ==
  /\ C27_Done
  /\ resistancePivots(probe.args[1]) = <<Num(2012), Num(2014)>>
  /\ supportPivots(probe.args[1]) = <<Num(1495)>>
  /\ probe.result.levels.resistances = <<[price |-> Num(2010), strength |-> 2]>>
  /\ probe.result.levels.supports = <<[price |-> Num(1500), strength |-> 1]>>

(***************************************************************************)
(* Properties of the stored structure results.                             *)
(***************************************************************************)
\* A field of a stored result is present.
C28_Has(res, field) == field \in DOMAIN res /\ res[field] # Null

\* C28: every stored structure result with the source MISSING has the label
\* WAIT, ok = false and no support, resistance or roomTo2R; every result
\* computed from candles has the source BINANCE_1H; a result with that
\* source has ok = true iff its label is OK; roomTo2R is present only on OK
\* results, where it is at least 2, and on NO_EDGE results, where it is
\* below 2.
C28_StoredStructureShape ==
  /\ \A sym \in DOMAIN structMap :
       LET res == structMap[sym]
       IN  /\ res.source \in {"MISSING", "BINANCE_1H"}
           /\ res.source = "MISSING" =>
                /\ res.label = "WAIT"
                /\ ~res.ok
                /\ ~C28_Has(res, "support")
                /\ ~C28_Has(res, "resistance")
                /\ ~C28_Has(res, "roomTo2R")
           /\ res.source = "BINANCE_1H" => (res.ok <=> res.label = "OK")
           /\ C28_Has(res, "roomTo2R") =>
                \/ res.label = "OK" /\ LessEq(Num(2), res.roomTo2R)
                \/ res.label = "NO_EDGE" /\ Less(res.roomTo2R, Num(2))
           /\ res.label = "OK" => C28_Has(res, "roomTo2R")
  /\ \A sym \in probe.ranked :
       probe.fromCandles[sym] => structMap[sym].source = "BINANCE_1H"

\* C28 witness: the map holds a fallback for BTC, stored by the last refresh,
\* and for SOL a NO_EDGE result with its room below 2, computed from candles.
C28_Witness ==
  /\ probe.ranked = {"BTC"}
  /\ ~probe.fromCandles["BTC"]
  /\ Stored(structMap, "BTC") = MissingStructure
  /\ Stored(structMap, "SOL") # Null
  /\ Stored(structMap, "SOL").source = "BINANCE_1H"
  /\ Stored(structMap, "SOL").label = "NO_EDGE"
  /\ Stored(structMap, "SOL").support = Num(98)
  /\ Stored(structMap, "SOL").resistance = Num(120)
  /\ Stored(structMap, "SOL").roomTo2R = Frac(5, 6)

(***************************************************************************)
(* Properties of the next change of the session window.                    *)
(***************************************************************************)
C29_SessionAt(minute) == computeSession(minute % MinutesPerDay).session

\* C29: the next change that computeSession reports lies strictly after now
\* and is the first boundary after now: the session of every minute from now
\* up to the next change is that of now and the session at the next change
\* is another one; from 21:00 on the next change is 01:00 of the next day.
\* The countdown is the difference in whole seconds, which is not negative.
C29_NextChangeIsNextBoundary ==
  (probe # Null /\ probe.fn = "computeSession" /\ probe.done) =>
    LET date == probe.args[1]
        r == probe.result
        cur == date \div MsPerMinute
        next == r.nextChangeAt \div MsPerMinute
        seconds == (r.nextChangeAt - date) \div 1000
    IN  /\ r.nextChangeAt > date
        /\ r.nextChangeAt % MsPerMinute = 0
        /\ \A minute \in cur..(next - 1) : C29_SessionAt(minute) = r.session
        /\ C29_SessionAt(next) # r.session
        /\ cur >= B_OVERLAP => next = MinutesPerDay + B_0100
        /\ seconds >= 0
        /\ r.countdown[1] * 3600 + r.countdown[2] * 60 + r.countdown[3] = seconds
        /\ r.countdown[2] \in 0..59
        /\ r.countdown[3] \in 0..59

\* C29 witness: at 23:59:59.001 the window is the overlap, the next change
\* is 01:00 of the next day and the countdown shows 01:00:00.
C29_Witness ==
  /\ probe # Null
  /\ probe.fn = "computeSession"
  /\ probe.done
  /\ probe.args[1] = ((23 * 60 + 59) * 60 + 59) * 1000 + 1
  /\ probe.result.session = "EUROPE + US OVERLAP"
  /\ probe.result.nextChangeAt = 25 * 60 * MsPerMinute
  /\ probe.result.countdown = <<1, 0, 0>>


\* ---------------------------------------------------------------------------
\* C31..C40
\* ---------------------------------------------------------------------------

\* C31 (as stated): a trade is logged for the focus symbol only if that
\* symbol is action-allowed when the log form is opened: every step that opens
\* the log form (the only way to a TradeRecord, which carries focusSymbol)
\* starts in a state where coinActionAllowed holds for the row of the focus
\* symbol, the default focus symbol included.  The Log Trade button is
\* disabled by !tradingAllowed alone, so the statement is violated.
C31_LogOnlyForAllowedFocus ==
  [][(~logOpen /\ logOpen') => coinActionAllowed(setupRow(focusSymbol))]_vars


\* C32 (as stated): a trade is appended to DayState.trades only in a state
\* where global trading-allowed is true: no step from a state in which
\* tradingAllowed is false (the session window became WAIT or a session the
\* contract does not enable, or the day rolled over, while the log form was
\* open) makes the ledger longer.  addTrade checks nothing but the finiteness
\* of r, so the statement is violated.
C32_AppendOnlyWhileTradingAllowed ==
  [][Len(dayState'.trades) > Len(dayState.trades) => tradingAllowed]_vars


\* An invocation of the refresh is in flight from its start to its finally.
C33_InFlight(i) == probe.calls[i].pc \in {"markets", "micro", "struct"}

\* C33 (as stated): isLoading is true in every state in which at least one
\* refresh invocation is still in flight, overlapping invocations included.
\* Each invocation clears the flag in its own finally, so the first of two
\* overlapping invocations to finish clears it while the other is in flight.
C33_LoadingWhileInFlight ==
  (\E i \in Invocations : C33_InFlight(i)) => isLoading


\* C34: every refresh invocation eventually finishes and sets isLoading to
\* false, whether the snapshot, intraday or candle fetches succeed or fail,
\* provided every upstream call eventually resolves or rejects: an invocation
\* in flight leads to that invocation being done, and the step that finishes
\* an invocation leaves isLoading false.
C34_RefreshTerminates ==
  /\ \A i \in Invocations : C33_InFlight(i) ~> (probe.calls[i].pc = "done")
  /\ [][\A i \in Invocations :
          (probe.calls[i].pc # "done" /\ probe'.calls[i].pc = "done")
            => ~isLoading']_vars

\* Both invocations are done, one after a rejected snapshot fetch and the
\* other after a rejected intraday fetch and a rejected candle fetch.
C34_Witness ==
  /\ \A i \in Invocations : probe.calls[i].pc = "done"
  /\ ~isLoading
  /\ \E i \in Invocations : ~probe.calls[i].resp[1]
  /\ \E i \in Invocations :
       /\ probe.calls[i].resp[1]
       /\ \E sym \in probe.calls[i].resp[2] :
            /\ probe.calls[i].resp[3][sym] = "FAILED"
            /\ probe.calls[i].resp[4][sym] = FetchFailed


\* C35: the manual override flag changes only by set-override, by day
\* rollover (cleared) or by a reload (cleared): a step that changes
\* overrideGuard either changes nothing else of the guard and the assets
\* (set-override, which so changes neither DayState nor the contract), or
\* clears the flag on a new day, or clears it in a reload.  Hence the flag
\* stays as it is across session-window changes within the day, commit-today,
\* re-commit, log-trade, auto-lock, end-session, reset-day and refresh.
C35_OverrideFrame ==
  [][overrideGuard' # overrideGuard =>
       \/ UNCHANGED <<now, commit, dayState, logOpen, lsCommit, lsDayState,
                      focusSymbol, market, microMap, structMap, error>>
       \/ ~overrideGuard' /\ now'.day # now.day
       \/ /\ ~overrideGuard'
          /\ lastOp'.op = "reload"
          /\ ~logOpen' /\ market' = <<>> /\ microMap' = <<>> /\ structMap' = <<>>]_vars

\* The override is on although its check box is hidden (trading session in
\* the plan, day not locked): it was set under the contract that re-commit
\* has since replaced, and it stayed across re-commit, commit-today and a
\* refresh.
C35_Witness ==
  /\ overrideGuard
  /\ ~commitRequired
  /\ sessionInfo.status # "WAIT" /\ sessionAllowedByCommit /\ ~dayState.locked
  /\ lastOp.op = "commitToday"
  /\ market # <<>>
  /\ Len(dayState.trades) > 0


\* C36: global trading-allowed and per-asset action-allowed never depend on
\* the contract's allowOffPeak flag: at every minute of the day, the
\* decisions computed for a state equal the decisions computed for the state
\* that differs from it in allowOffPeak only.
C36_OffPeakFlagIrrelevant ==
  probe.done =>
    probe.result =
      guardDecisions(probe.args[1],
                     [probe.args[2] EXCEPT !.allowOffPeak = ~@],
                     probe.args[3], probe.args[4], probe.args[5])

\* In an OFF-PEAK window an unlocked day without override is not
\* trading-allowed although the contract enables OFF-PEAK.
C36_Witness ==
  /\ probe.done
  /\ computeSession(probe.args[1]).session = "OFF-PEAK"
  /\ probe.args[2].allowOffPeak
  /\ ~probe.args[2].allowAsia
  /\ ~probe.args[3]
  /\ ~probe.args[4]
  /\ probe.args[5] = [entryQuality |-> "VALID", structureLabel |-> "OK"]
  /\ ~probe.result.tradingAllowed
  /\ ~probe.result.coinActionAllowed


\* C37: in every reachable state DayState.locked is true if and only if
\* lockedReason is present, and while the day stays locked lockedReason does
\* not change: a step from a locked day to the same day still locked keeps
\* the reason, whatever limit is hit meanwhile.
C37_LockedReasonStable ==
  /\ [](dayState.locked <=> "lockedReason" \in DOMAIN dayState)
  /\ [][(dayState.locked /\ dayState'.locked /\ dayState'.dayKey = dayState.dayKey)
          => /\ "lockedReason" \in DOMAIN dayState
             /\ "lockedReason" \in DOMAIN dayState'
             /\ dayState'.lockedReason = dayState.lockedReason]_vars

\* The day was locked by end-session; under the contract committed since,
\* the trade cap is reached as well, and the reason is still the manual one.
C37_Witness ==
  /\ dayState.locked
  /\ "lockedReason" \in DOMAIN dayState
  /\ dayState.lockedReason = "Manual END SESSION"
  /\ ~commitRequired
  /\ tradesToday >= commit.maxTrades
  /\ lastOp.op = "commitToday"


\* C38: an asset of the snapshot for which no structure result has ever been
\* stored is treated as structure WAIT and is not action-allowed unless the
\* override is active, even when its entry quality defaults to VALID and
\* global trading-allowed is true.
C38_UnstoredStructureBlocks ==
  \A sym \in Range(market) :
    sym \notin DOMAIN structMap =>
      /\ setupRow(sym).structureLabel = "WAIT"
      /\ coinActionAllowed(setupRow(sym)) => overrideGuard

\* Trading is allowed without override; SOL was in no fan-out, so its entry
\* quality defaults to VALID and it is not action-allowed, while BTC, whose
\* structure result is stored as OK, is.
C38_Witness ==
  /\ tradingAllowed
  /\ ~overrideGuard
  /\ "SOL" \in Range(market)
  /\ "SOL" \notin DOMAIN structMap
  /\ "SOL" \notin DOMAIN microMap
  /\ setupRow("SOL").entryQuality = "VALID"
  /\ ~coinActionAllowed(setupRow("SOL"))
  /\ "BTC" \in DOMAIN structMap
  /\ coinActionAllowed(setupRow("BTC"))
  /\ focusSymbol = "BTC"


\* C39 (as stated): the intraday (hourly) proxy responds 400 when the id
\* parameter is missing or blank, and for every non-blank id it responds
\* with the upstream provider's status code and body, 500 only when
\* contacting the upstream throws.  The handler never contacts the upstream:
\* it answers 500 to every non-blank id, so the statement is violated.
C39_ProxyPassesUpstreamOn ==
  probe.done =>
    LET event == probe.args[1]
        upstream == probe.args[2]
        blank == ~event.has \/ \A k \in 1..Len(event.id) : event.id[k] = " "
    IN  IF blank THEN probe.result.statusCode = 400
        ELSE IF upstream = FetchFailed THEN probe.result.statusCode = 500
        ELSE /\ probe.result.statusCode = upstream.status
             /\ probe.result.body = upstream.body


\* C40: evaluateStructure never returns the "Invalid structure: support not
\* below price" NO_EDGE result: for every support candidate (a support below
\* the price) price - support is strictly positive, so every NO_EDGE result
\* carries support, resistance and a roomTo2R below 2.
C40_NoInvalidStructure ==
  probe.done =>
    LET lastPrice == probe.args[1]
        res == probe.result
    IN  /\ \A x \in probe.args[2].supports :
             Less(x.price, lastPrice) => Less(Num(0), Minus(lastPrice, x.price))
        /\ res.reasons # <<"Invalid structure">>
        /\ res.label = "NO_EDGE" =>
             /\ res.support # Null
             /\ res.resistance # Null
             /\ res.roomTo2R # Null
             /\ Less(res.roomTo2R, Num(2))

\* A NO_EDGE result for a price with supports below it, at it and above it:
\* the nearest support below is 98 and the room to the chosen resistance is
\* less than 2R.
C40_Witness ==
  /\ probe.done
  /\ probe.args[1] = Num(100)
  /\ {x.price : x \in probe.args[2].supports} = {Num(98), Num(100), Num(102)}
  /\ probe.result.label = "NO_EDGE"
  /\ probe.result.support = Num(98)
  /\ probe.result.resistance # Null
  /\ Less(probe.result.roomTo2R, Num(2))

====
